---- MODULE Spec2Model ----
(***************************************************************************)
(* Client-side synchronisation layer of the two dashboards:                *)
(*   - control-tower: useDashboardStore (store/dashboardStore) and the     *)
(*     useDashboardData hook;                                              *)
(*   - world-viewer: useSimulationStore (store/simulationStore) and the    *)
(*     useWebSocket hook.                                                  *)
(* Each zustand store is one record variable whose fields carry the names  *)
(* of the source.  The browser side (the WebSocket objects the hooks have  *)
(* created, the pending setTimeout callbacks) is modelled explicitly.      *)
(***************************************************************************)
EXTENDS Integers, Sequences, FiniteSets, TLC

VARIABLES
    dashboardStore,       \* useDashboardStore: state fields of the control-tower store
    simulationStore,      \* useSimulationStore: state fields of the world-viewer store
    wsRef,                \* useWebSocket: wsRef.current (0 = null, else an id in sockets)
    connectionState,      \* useWebSocket: useState 'connecting'|'connected'|'disconnected'
    reconnectTimeoutRef,  \* useWebSocket: reconnectTimeoutRef.current (0 = undefined)
    reconnectAttempts,    \* useWebSocket: reconnectAttempts.current
    sockets,              \* the WebSocket objects of useWebSocket still referenced (by
                          \*   wsRef.current, or by the browser for an event to come): id -> object
    socketCount,          \* history: number of WebSocket objects useWebSocket has created
    timers,               \* ids of the setTimeout callbacks of useWebSocket still pending
    task,                 \* browser: 0, or the socket whose error event has been fired and
                          \*   whose close event is fired next in the same task
    userCalls,            \* history: number of connect() and disconnect() calls so far
    pushed,               \* history: every sample handed to the control-tower updateMetrics
    shutdown,             \* history: disconnect() was called and connect() not since
    scheduledSinceOpen,   \* history: reconnect timers scheduled since the last successful open
    lastFrame,            \* history: the inbound frame handled last, and by which dashboard
    frameCount,           \* history: number of inbound frames handled so far
    control,              \* world-viewer: the useSimulationControl mutations and the
                          \*   simulation-status query of useSimulationData, while followed
    worldContainer,       \* world-viewer: the PIXI Container the camera is applied to
    wheelCount,           \* history: number of wheel events handled so far
    dashQueries,          \* control-tower: the data of the useQuery results of useDashboardData
    cameraControls,       \* world-viewer: the variables setupCameraControls closes over
    apiFailure,           \* the API call that failed last: the client, the error axios
                          \*   rejected with, the error the interceptor threw
    dashWs                \* control-tower: wsRef of useDashboardData, its WebSocket objects
                          \*   and the reconnect timers pending

vars == <<dashboardStore, simulationStore, wsRef, connectionState, reconnectTimeoutRef,
          reconnectAttempts, sockets, socketCount, timers, task, userCalls, pushed, shutdown,
          scheduledSinceOpen, lastFrame, frameCount, control, worldContainer, wheelCount,
          dashQueries, cameraControls, apiFailure, dashWs>>

hookVars == <<wsRef, connectionState, reconnectTimeoutRef, reconnectAttempts, sockets,
              socketCount, timers, task, userCalls, shutdown, scheduledSinceOpen>>

pageVars == <<cameraControls, apiFailure, dashWs>>

uiVars == <<control, worldContainer, wheelCount, dashQueries, pageVars>>

\* JavaScript null / undefined, where an object is expected
Null == [null |-> TRUE]
\* JavaScript null, where a string is expected (connectionError: string | null)
NullStr == "null"
\* an exception raised while a handler runs
Throw == [throws |-> TRUE]

(***************************************************************************)
(* Bounds of the model                                                     *)
(***************************************************************************)
\* number of samples pushed into the control-tower history
MaxPush == 150
\* number of WebSocket objects useWebSocket creates in one run
MaxSockets == 7
\* number of ping envelopes on the sockets still referenced
MaxPings == 1
\* number of inbound frames handled in one run of the message routers
MaxFrames == 3
\* number of connect() and disconnect() calls (mount effect, unmount, users of the hook)
MaxUserCalls == 3
\* event frames handled by the world-viewer / by the control-tower
MaxSimEvents == 1001
MaxDashEvents == 201
\* commands issued, handleJump calls
MaxCommands == 2
\* samples handed to the metric history with the refresh button in play
MaxHistoryPush == 8
\* samples handed to updateMetrics of the control-tower store called directly
MaxStorePush == 103
\* wheel events
MaxWheel == 24
\* mouse events on the canvas
MaxPointerEvents == 5
\* wheel events between the mouse events
MaxDragWheel == 1
\* commands issued from the jump input
MaxJumps == 2
\* frames handled while commands run
MaxControlFrames == 1
\* WebSocket objects useDashboardData creates in one run
MaxDashSockets == 3
\* frames handled while the channel drops and re-opens
MaxReconnectFrames == 2

(***************************************************************************)
(* Array.prototype.slice(-k) for k > 0: the last k elements, or the whole  *)
(* array when it is shorter.                                               *)
(***************************************************************************)
SliceLast(arr, k) ==
    IF Len(arr) <= k THEN arr ELSE SubSeq(arr, Len(arr) - k + 1, Len(arr))

(***************************************************************************)
(* Control-tower store                                                     *)
(***************************************************************************)
\* metricsHistory.slice(-99)
MetricsHistoryKeep == 99
\* events.slice(-199)
DashEventsKeep == 199

DashInitialState ==
    [ isConnected      |-> FALSE,
      connectionError  |-> NullStr,
      simulationStatus |-> Null,
      currentMetrics   |-> Null,
      metricsHistory   |-> <<>>,
      events           |-> <<>> ]

\* a mutation of updateMetrics: the history grows, the latest sample stays
Dash_updateMetrics_historyOnly(store, metrics) ==
    [store EXCEPT !.metricsHistory = Append(SliceLast(@, MetricsHistoryKeep), metrics)]

\* a mutation of updateMetrics: slice(-100) instead of slice(-99)
Dash_updateMetrics_keepsOneMore(store, metrics) ==
    [store EXCEPT !.currentMetrics = metrics,
                  !.metricsHistory = Append(SliceLast(@, MetricsHistoryKeep + 1), metrics)]

\* updateMetrics: (metrics) => set((state) => ({currentMetrics, metricsHistory: [...slice(-99), metrics]}))
\* (lastUpdateTime: Date.now() is a wall-clock stamp no claim reads; it is left out)
Dash_updateMetrics(store, metrics) ==
    [store EXCEPT !.currentMetrics = metrics,
                  !.metricsHistory = Append(SliceLast(@, MetricsHistoryKeep), metrics)]

\* addEvent: (event) => set((state) => ({events: [...state.events.slice(-199), event]}))
Dash_addEvent(store, event) ==
    [store EXCEPT !.events = Append(SliceLast(@, DashEventsKeep), event)]

\* clearEvents: () => set({events: []})
Dash_clearEvents(store) == [store EXCEPT !.events = <<>>]

\* reset: () => set(initialState)
Dash_reset(store) == DashInitialState

Dash_setConnected(store, connected) == [store EXCEPT !.isConnected = connected]

Dash_setConnectionError(store, error) == [store EXCEPT !.connectionError = error]

(***************************************************************************)
(* World-viewer store                                                      *)
(***************************************************************************)
\* events.slice(-999)
SimEventsKeep == 999

\* zoom values are fixed-point numbers: ZoomUnit stands for 1.0
ZoomUnit == 1000000

SimInitialState ==
    [ isConnected      |-> FALSE,
      connectionError  |-> NullStr,
      simulationStatus |-> Null,
      agents           |-> <<>>,
      metrics          |-> Null,
      events           |-> <<>>,
      selectedAgent    |-> Null,
      camera           |-> [x |-> 0, y |-> 0, zoom |-> ZoomUnit] ]

\* agents.find(a => a.agent_id === id): the first match, or undefined
FindAgent(agents, id) ==
    LET hits == {i \in 1..Len(agents) : agents[i].agent_id = id}
    IN  IF hits = {} THEN Null
        ELSE agents[CHOOSE i \in hits : \A j \in hits : i <= j]

\* updateAgents without the refresh of the selection: set({agents}) only
Sim_updateAgents_keepsSelection(store, agents) == [store EXCEPT !.agents = agents]

\* updateAgents: set({agents}); then, when the selected agent is among the new
\* array, set({selectedAgent: updatedAgent})
Sim_updateAgents(store, agents) ==
    LET replaced == [store EXCEPT !.agents = agents]
        selectedAgent == replaced.selectedAgent
        updatedAgent == IF selectedAgent = Null THEN Null
                        ELSE FindAgent(agents, selectedAgent.agent_id)
    IN  IF selectedAgent # Null /\ updatedAgent # Null
        THEN [replaced EXCEPT !.selectedAgent = updatedAgent]
        ELSE replaced

\* updateMetrics: (metrics) => set({metrics})
Sim_updateMetrics(store, metrics) == [store EXCEPT !.metrics = metrics]

\* addEvent that keeps the last 1000 before appending: one entry too many
Sim_addEvent_keepsOneMore(store, event) ==
    [store EXCEPT !.events = Append(SliceLast(@, SimEventsKeep + 1), event)]

\* addEvent: (event) => set((state) => ({events: [...state.events.slice(-999), event]}))
Sim_addEvent(store, event) ==
    [store EXCEPT !.events = Append(SliceLast(@, SimEventsKeep), event)]

\* updateSimulationStatus: (status) => set({simulationStatus: status})
Sim_updateSimulationStatus(store, status) == [store EXCEPT !.simulationStatus = status]

\* updateCamera: (camera) => set((state) => ({camera: {...state.camera, ...camera}}))
Sim_updateCamera(store, camera) == [store EXCEPT !.camera = camera @@ @]

\* reset: () => set(initialState)
Sim_reset(store) == SimInitialState

\* selectAgent: (agent) => set({selectedAgent: agent})
Sim_selectAgent(store, agent) == [store EXCEPT !.selectedAgent = agent]

\* setConnected: (connected) => set({isConnected: connected})
Sim_setConnected(store, connected) == [store EXCEPT !.isConnected = connected]

Sim_setConnectionError(store, error) == [store EXCEPT !.connectionError = error]

\* the messages useWebSocket passes to setConnectionError
\* setConnectionError('WebSocket 连接错误')
ErrSocket == "WebSocket connection error"
\* setConnectionError('连接失败，已达到最大重试次数')
ErrMaxRetries == "connection failed, maximum retries reached"

(***************************************************************************)
(* Inbound frames.  event.data is a string; JSON.parse either throws or    *)
(* yields a value.  A frame is modelled by what its text is: not JSON,     *)
(* the JSON text "null", or the JSON text of an envelope {topic, data}.    *)
(***************************************************************************)
AgentIds == {5, 7}
AgentTypes == {"firm"}
AgentStatuses == {"active", "bankrupt"}

\* a (possibly partial) agent record: agent_id, and any of agent_type, status
AgentRecord(id, type, status) ==
    [agent_id |-> id]
      @@ (IF type = "absent" THEN <<>> ELSE [agent_type |-> type])
      @@ (IF status = "absent" THEN <<>> ELSE [status |-> status])

AgentRecords ==
    {AgentRecord(id, type, status) :
        id \in AgentIds, type \in AgentTypes \cup {"absent"},
        status \in AgentStatuses \cup {"absent"}}

\* actors_delta arrays: empty, one record, two records of different agents
ActorDeltas ==
    {<<>>} \cup {<<a>> : a \in AgentRecords}
           \cup {<<a, b>> : a \in {r \in AgentRecords : r.agent_id = 5},
                            b \in {r \in AgentRecords : r.agent_id = 7}}

MetricSamples == {[timestamp |-> t] : t \in 1..2}

StreamEvents == {[timestamp |-> 1, event_type |-> "default", payload |-> "p"]}

VotePayloads == {[timestamp |-> 2, member_id |-> 9, vote |-> "hold"],
                 [timestamp |-> 2, member_id |-> 9, event_type |-> "default", type |-> "t"]}

Envelopes ==
         {[topic |-> "metrics.update", data |-> m] : m \in MetricSamples}
    \cup {[topic |-> "world.delta", data |-> [actors_delta |-> d]] : d \in ActorDeltas}
    \cup {[topic |-> "world.delta", data |-> [tiles_delta |-> <<>>]]}
    \cup {[topic |-> "world.delta", data |-> Null]}
    \cup {[topic |-> "events.stream", data |-> e] : e \in StreamEvents}
    \cup {[topic |-> "policy.vote", data |-> v] : v \in VotePayloads}
    \cup {[topic |-> "agent.spawn", data |-> [x |-> 1]]}
    \cup {[topic |-> "agent.spawn", data |-> Null]}

Frames ==
         {[text |-> "not json"], [text |-> "null"]}
    \cup {[text |-> "envelope", value |-> e] : e \in Envelopes}

\* JSON.parse(event.data): throws |-> TRUE stands for the SyntaxError it raises
JsonParse(frame) ==
    CASE frame.text = "not json" -> [throws |-> TRUE]
      [] frame.text = "null"     -> [throws |-> FALSE, value |-> Null]
      [] OTHER                   -> [throws |-> FALSE, value |-> frame.value]

\* a router whose default branch reports the unknown topic as a connection error
Sim_handleMessage_rejectsUnknownTopic(store, message) ==
    IF message = Null THEN Throw
    ELSE CASE message.topic = "metrics.update" -> Sim_updateMetrics(store, message.data)
           [] message.topic = "world.delta" ->
                IF message.data = Null THEN Throw
                ELSE IF "actors_delta" \in DOMAIN message.data
                     THEN Sim_updateAgents(store, message.data.actors_delta)
                     ELSE store
           [] message.topic = "events.stream" -> Sim_addEvent(store, message.data)
           [] message.topic = "policy.vote" ->
                Sim_addEvent(store, [type |-> "policy_vote"] @@ message.data)
           [] OTHER -> Sim_setConnectionError(store, ErrSocket)

\* useWebSocket.handleMessage; the result is the store afterwards, or Throw
\* where evaluating the handler raises a TypeError (message is null, or
\* message.data is null where message.data.actors_delta is read)
Sim_handleMessage(store, message) ==
    IF message = Null THEN Throw
    ELSE CASE message.topic = "metrics.update" -> Sim_updateMetrics(store, message.data)
           [] message.topic = "world.delta" ->
                IF message.data = Null THEN Throw
                ELSE IF "actors_delta" \in DOMAIN message.data
                     THEN Sim_updateAgents(store, message.data.actors_delta)
                     ELSE store
           [] message.topic = "events.stream" -> Sim_addEvent(store, message.data)
           [] message.topic = "policy.vote" ->
                Sim_addEvent(store, [type |-> "policy_vote"] @@ message.data)
           [] OTHER -> store

\* ws.onmessage that surfaces a parse failure in the store instead of dropping the frame
Sim_onmessage_reportsParseError(store, frame) ==
    LET parsed == JsonParse(frame)
    IN  IF parsed.throws THEN Sim_setConnectionError(store, ErrSocket)
        ELSE LET after == Sim_handleMessage(store, parsed.value)
             IN  IF after = Throw THEN store ELSE after

\* ws.onmessage of useWebSocket: try { handleMessage(JSON.parse(event.data)) } catch { log }
Sim_onmessage(store, frame) ==
    LET parsed == JsonParse(frame)
    IN  IF parsed.throws THEN store
        ELSE LET after == Sim_handleMessage(store, parsed.value)
             IN  IF after = Throw THEN store ELSE after

\* message.data.<field> of a payload that may lack the field (undefined)
Field(data, name) == IF name \in DOMAIN data THEN data[name] ELSE Null

\* useDashboardData.handleWebSocketMessage
Dash_handleWebSocketMessage(store, message) ==
    IF message = Null THEN Throw
    ELSE CASE message.topic = "metrics.update" -> Dash_updateMetrics(store, message.data)
           [] message.topic = "events.stream" ->
                IF message.data = Null THEN Throw
                ELSE Dash_addEvent(store,
                        [timestamp  |-> Field(message.data, "timestamp"),
                         event_type |-> Field(message.data, "event_type"),
                         actor_id   |-> Field(message.data, "actor_id"),
                         payload    |-> Field(message.data, "payload"),
                         metadata   |-> Field(message.data, "metadata")])
           [] message.topic = "policy.vote" ->
                IF message.data = Null THEN Throw
                ELSE Dash_addEvent(store,
                        [timestamp  |-> Field(message.data, "timestamp"),
                         event_type |-> "policy_vote",
                         actor_id   |-> Field(message.data, "member_id"),
                         payload    |-> message.data])
           [] OTHER -> store

\* ws.onmessage of useDashboardData
Dash_onmessage(store, frame) ==
    LET parsed == JsonParse(frame)
    IN  IF parsed.throws THEN store
        ELSE LET after == Dash_handleWebSocketMessage(store, parsed.value)
             IN  IF after = Throw THEN store ELSE after

(***************************************************************************)
(* useWebSocket (world-viewer).  A WebSocket object is a record of its     *)
(* readyState, of the envelopes sent on it ("subscribe", "ping") and of    *)
(* who created it (by: a connect() call of the mount effect or of a user   *)
(* of the hook, or the reconnect timer).  Its handlers stay attached for   *)
(* its whole life, whatever wsRef points at.  The browser sets readyState  *)
(* and fires the events of one transition in one task: OPEN with open;     *)
(* CLOSED with error (a failed connection) and then close, two handler     *)
(* runs with nothing else between them.                                    *)
(***************************************************************************)
maxReconnectAttempts == 5

NewSocket(by) == [readyState |-> "CONNECTING", sent |-> <<>>, by |-> by]

Live(ws) == ws.readyState \in {"CONNECTING", "OPEN"}

\* WebSocket.close(): CONNECTING or OPEN becomes CLOSING, the close event comes later
CloseSocket(ws) ==
    IF Live(ws) THEN [ws EXCEPT !.readyState = "CLOSING"] ELSE ws

\* The objects among socks that stay referenced when wsRef.current is ref and the
\* browser still has to fire the close event of pending: a CLOSED socket that is
\* neither is garbage (nothing can reach it, none of its handlers runs again).
Referenced(socks, ref, pending) ==
    [ws \in {w \in DOMAIN socks : socks[w].readyState # "CLOSED" \/ w = ref \/ w = pending}
        |-> socks[ws]]

\* object identity of a new WebSocket: an id none of the objects socks has
NewSocketId(socks) ==
    CHOOSE ws \in 1..(Cardinality(DOMAIN socks) + 1) : ws \notin DOMAIN socks

\* connect(): returns when wsRef.current is OPEN; otherwise creates a socket.
\* (new WebSocket(url) throws only for a malformed url; url is a fixed literal)
connect(by) ==
    IF wsRef # 0 /\ sockets[wsRef].readyState = "OPEN"
    THEN UNCHANGED <<wsRef, connectionState, sockets, socketCount>>
    ELSE /\ socketCount < MaxSockets
         /\ socketCount' = socketCount + 1
         /\ connectionState' = "connecting"
         /\ LET kept == Referenced(sockets, 0, 0)
                ws == NewSocketId(sockets)
            IN  /\ sockets' = kept @@ (ws :> NewSocket(by))
                /\ wsRef' = ws

\* connect() called by the mount effect or by a user of the hook
WV_connect ==
    /\ task = 0
    /\ userCalls < MaxUserCalls
    /\ userCalls' = userCalls + 1
    /\ connect("connect")
    /\ shutdown' = FALSE
    /\ UNCHANGED <<uiVars, dashboardStore, simulationStore, reconnectTimeoutRef, reconnectAttempts,
                   timers, task, pushed, scheduledSinceOpen, lastFrame, frameCount>>

\* the setTimeout callback of ws.onclose: () => connect()
WV_reconnectTimer(t) ==
    /\ task = 0
    /\ t \in timers
    /\ timers' = timers \ {t}
    /\ connect("timer")
    /\ UNCHANGED <<uiVars, dashboardStore, simulationStore, reconnectTimeoutRef, reconnectAttempts,
                   task, userCalls, pushed, shutdown, scheduledSinceOpen, lastFrame,
                   frameCount>>

\* a mutation of ws.onopen: the subscribe envelope is not sent
WV_onopen_noSubscribe(s) ==
    /\ task = 0
    /\ s \in DOMAIN sockets
    /\ sockets[s].readyState = "CONNECTING"
    /\ sockets' = [sockets EXCEPT ![s].readyState = "OPEN"]
    /\ connectionState' = "connected"
    /\ simulationStore' = Sim_setConnectionError(Sim_setConnected(simulationStore, TRUE), NullStr)
    /\ reconnectAttempts' = 0
    /\ scheduledSinceOpen' = 0
    /\ UNCHANGED <<uiVars, dashboardStore, wsRef, reconnectTimeoutRef, socketCount, timers, task,
                   userCalls, pushed, shutdown, lastFrame, frameCount>>

\* a mutation of ws.onopen: reconnectAttempts.current is not reset
WV_onopen_keepsAttempts(s) ==
    /\ task = 0
    /\ s \in DOMAIN sockets
    /\ sockets[s].readyState = "CONNECTING"
    /\ sockets' = [sockets EXCEPT ![s].readyState = "OPEN",
                                  ![s].sent = Append(@, "subscribe")]
    /\ connectionState' = "connected"
    /\ simulationStore' = Sim_setConnectionError(Sim_setConnected(simulationStore, TRUE), NullStr)
    /\ scheduledSinceOpen' = 0
    /\ UNCHANGED <<uiVars, dashboardStore, wsRef, reconnectTimeoutRef, reconnectAttempts, socketCount,
                   timers, task, userCalls, pushed, shutdown, lastFrame, frameCount>>

\* ws.onopen
WV_onopen(s) ==
    /\ task = 0
    /\ s \in DOMAIN sockets
    /\ sockets[s].readyState = "CONNECTING"
    /\ sockets' = [sockets EXCEPT ![s].readyState = "OPEN",
                                  ![s].sent = Append(@, "subscribe")]
    /\ connectionState' = "connected"
    /\ simulationStore' = Sim_setConnectionError(Sim_setConnected(simulationStore, TRUE), NullStr)
    /\ reconnectAttempts' = 0
    /\ scheduledSinceOpen' = 0
    /\ UNCHANGED <<uiVars, dashboardStore, wsRef, reconnectTimeoutRef, socketCount, timers, task,
                   userCalls, pushed, shutdown, lastFrame, frameCount>>

\* The id setTimeout returns.  Every id is stored into reconnectTimeoutRef at once,
\* replacing the handle held before, so a stale handle never meets a later timer:
\* the smallest id not pending stands for the fresh id of the browser.
NewTimer == CHOOSE t \in 1..(Cardinality(timers) + 1) : t \notin timers

\* ws.onerror: setConnectionError('WebSocket 连接错误').  The socket is CLOSED
\* already and its close event follows in the same task.
WV_onerror(s) ==
    /\ task = 0
    /\ s \in DOMAIN sockets
    /\ sockets[s].readyState # "CLOSED"
    /\ sockets' = [sockets EXCEPT ![s].readyState = "CLOSED"]
    /\ simulationStore' = Sim_setConnectionError(simulationStore, ErrSocket)
    /\ task' = s
    /\ UNCHANGED <<uiVars, dashboardStore, wsRef, connectionState, reconnectTimeoutRef,
                   reconnectAttempts, socketCount, timers, userCalls, pushed, shutdown,
                   scheduledSinceOpen, lastFrame, frameCount>>

\* a close event is fired on s: after its error event, or as the clean close of
\* a socket that had opened
CloseEventDue(s) ==
    \/ task = s
    \/ /\ task = 0
       /\ sockets[s].readyState \in {"OPEN", "CLOSING"}
       /\ sockets[s].sent # <<>>

\* ws.onclose
WV_onclose(s) ==
    /\ s \in DOMAIN sockets
    /\ CloseEventDue(s)
    /\ sockets' = Referenced([sockets EXCEPT ![s].readyState = "CLOSED"], wsRef, 0)
    /\ task' = 0
    /\ connectionState' = "disconnected"
    /\ IF reconnectAttempts < maxReconnectAttempts
       THEN /\ reconnectAttempts' = reconnectAttempts + 1
            /\ timers' = timers \cup {NewTimer}
            /\ reconnectTimeoutRef' = NewTimer
            /\ scheduledSinceOpen' = scheduledSinceOpen + 1
            /\ simulationStore' = Sim_setConnected(simulationStore, FALSE)
       ELSE /\ simulationStore' =
                  Sim_setConnectionError(Sim_setConnected(simulationStore, FALSE),
                                         ErrMaxRetries)
            /\ UNCHANGED <<reconnectAttempts, timers, reconnectTimeoutRef,
                           scheduledSinceOpen>>
    /\ UNCHANGED <<uiVars, dashboardStore, wsRef, socketCount, userCalls, pushed, shutdown, lastFrame,
                   frameCount>>

\* disconnect()
WV_disconnect ==
    /\ task = 0
    /\ userCalls < MaxUserCalls
    /\ userCalls' = userCalls + 1
    /\ timers' = IF reconnectTimeoutRef # 0 THEN timers \ {reconnectTimeoutRef} ELSE timers
    /\ IF wsRef # 0
       THEN /\ sockets' = Referenced([sockets EXCEPT ![wsRef] = CloseSocket(@)], 0, 0)
            /\ wsRef' = 0
       ELSE UNCHANGED <<sockets, wsRef>>
    /\ connectionState' = "disconnected"
    /\ simulationStore' = Sim_setConnected(simulationStore, FALSE)
    /\ shutdown' = TRUE
    /\ UNCHANGED <<uiVars, dashboardStore, reconnectTimeoutRef, reconnectAttempts, socketCount, task,
                   pushed, scheduledSinceOpen, lastFrame, frameCount>>

\* ping envelopes sent so far, over all sockets
PingCount ==
    Cardinality({<<s, i>> \in (DOMAIN sockets) \X (1..(MaxPings + 1)) :
                    i \in DOMAIN sockets[s].sent /\ sockets[s].sent[i] = "ping"})

\* the heartbeat effect: while connectionState is 'connected' an interval calls
\* sendMessage({type: 'ping'}), which sends only when wsRef.current is OPEN
WV_heartbeat ==
    /\ task = 0
    /\ connectionState = "connected"
    /\ IF wsRef # 0 /\ sockets[wsRef].readyState = "OPEN"
       THEN /\ PingCount < MaxPings
            /\ sockets' = [sockets EXCEPT ![wsRef].sent = Append(@, "ping")]
       ELSE UNCHANGED sockets
    /\ UNCHANGED <<uiVars, dashboardStore, simulationStore, wsRef, connectionState,
                   reconnectTimeoutRef, reconnectAttempts, socketCount, timers, task,
                   userCalls, pushed, shutdown, scheduledSinceOpen, lastFrame, frameCount>>

(***************************************************************************)
(* Initial state: both stores as created, the hook before its mount effect *)
(***************************************************************************)
\* the command hook and the status query where a behaviour does not follow them
ControlUnmounted == [mounted |-> FALSE]

\* new Container(): scale 1, position (0, 0)
ContainerInitial == [scale |-> ZoomUnit, x |-> 0, y |-> 0]

\* the camera effect of WorldViewer:
\* worldContainer.position.set(camera.x, camera.y); worldContainer.scale.set(camera.zoom)
ApplyCamera(camera) == [scale |-> camera.zoom, x |-> camera.x, y |-> camera.y]

\* setupCameraControls: let isDragging = false, dragStart = {x: 0, y: 0},
\* lastPosition = {x: 0, y: 0}; pointerEvents counts the mouse events handled,
\* lastEvent is the one handled last
ControlsInitial ==
    [ isDragging    |-> FALSE,
      dragStart     |-> [x |-> 0, y |-> 0],
      lastPosition  |-> [x |-> 0, y |-> 0],
      pointerEvents |-> 0,
      lastEvent     |-> [type |-> "none"] ]

\* no API call has failed
NoFailure == [client |-> "none"]

\* useDashboardData before its effect runs: wsRef.current null, no WebSocket yet
\* (task: 0, or the socket whose error event has been fired and whose close
\* event is fired next in the same task)
DashWsInitial == [ref |-> 0, sockets |-> <<>>, timers |-> 0, task |-> 0, created |-> 0]

\* useDashboardData with its first WebSocket open
DashWsOpen ==
    [ref |-> 1, sockets |-> <<[readyState |-> "OPEN", sent |-> <<"subscribe">>, by |-> "mount"]>>,
     timers |-> 0, task |-> 0, created |-> 1]

\* useQuery data before the first result: undefined
DashQueriesInitial == [currentMetrics |-> Null]

NoFrame == [by |-> "none", frame |-> [text |-> "none"]]

Init ==
    /\ dashboardStore = DashInitialState
    /\ simulationStore = SimInitialState
    /\ wsRef = 0
    /\ connectionState = "disconnected"
    /\ reconnectTimeoutRef = 0
    /\ reconnectAttempts = 0
    /\ sockets = <<>>
    /\ socketCount = 0
    /\ timers = {}
    /\ task = 0
    /\ userCalls = 0
    /\ pushed = <<>>
    /\ shutdown = FALSE
    /\ scheduledSinceOpen = 0
    /\ lastFrame = NoFrame
    /\ frameCount = 0
    /\ control = ControlUnmounted
    /\ worldContainer = ContainerInitial
    /\ wheelCount = 0
    /\ dashQueries = DashQueriesInitial
    /\ cameraControls = ControlsInitial
    /\ apiFailure = NoFailure
    /\ dashWs = DashWsInitial

(***************************************************************************)
(* The connection life cycle of the world-viewer                           *)
(***************************************************************************)
NextConn ==
    \/ WV_connect
    \/ WV_disconnect
    \/ \E t \in timers : WV_reconnectTimer(t)
    \/ \E s \in DOMAIN sockets : WV_onopen(s)
    \/ \E s \in DOMAIN sockets : WV_onerror(s)
    \/ \E s \in DOMAIN sockets : WV_onclose(s)
    \/ WV_heartbeat

SpecConn == Init /\ [][NextConn]_vars

\* useSimulationStore.getState().reset(), called while the hook lives
WV_reset ==
    /\ task = 0
    /\ simulationStore' = Sim_reset(simulationStore)
    /\ UNCHANGED <<uiVars, dashboardStore, hookVars, pushed, lastFrame, frameCount>>

\* the connection life cycle with the reset action of the store in play
NextSession ==
    \/ NextConn
    \/ WV_reset

SpecSession == Init /\ [][NextSession]_vars

(***************************************************************************)
(* The channel of the control-tower (useDashboardData).  connectWebSocket  *)
(* keeps no reconnect counter and no timer handle: every close event       *)
(* schedules another call, and a call replaces wsRef.current unless the    *)
(* socket it holds is OPEN.                                                *)
(***************************************************************************)
\* setConnectionError('WebSocket 连接失败')
ErrDashSocket == "WebSocket connection failed"

ctRest == <<simulationStore, hookVars, pushed, lastFrame, frameCount, control, worldContainer,
            wheelCount, dashQueries, cameraControls, apiFailure>>

\* the setTimeout callback of ws.onclose: connectWebSocket().
\* (new WebSocket(url) throws only for a malformed url; url is a fixed literal)
CT_connectWebSocket ==
    /\ dashWs.task = 0
    /\ dashWs.timers > 0
    /\ IF dashWs.ref # 0 /\ dashWs.sockets[dashWs.ref].readyState = "OPEN"
       THEN dashWs' = [dashWs EXCEPT !.timers = @ - 1]
       ELSE /\ dashWs.created < MaxDashSockets
            /\ LET kept == Referenced(dashWs.sockets, 0, 0)
                   ws == NewSocketId(dashWs.sockets)
               IN  dashWs' = [dashWs EXCEPT !.timers = @ - 1,
                                            !.created = @ + 1,
                                            !.sockets = kept @@ (ws :> NewSocket("timer")),
                                            !.ref = ws]
    /\ UNCHANGED <<dashboardStore, ctRest>>

\* ws.onopen
CT_onopen(s) ==
    /\ dashWs.task = 0
    /\ s \in DOMAIN dashWs.sockets
    /\ dashWs.sockets[s].readyState = "CONNECTING"
    /\ dashWs' = [dashWs EXCEPT !.sockets[s].readyState = "OPEN",
                                !.sockets[s].sent = Append(@, "subscribe")]
    /\ dashboardStore' =
          Dash_setConnectionError(Dash_setConnected(dashboardStore, TRUE), NullStr)
    /\ UNCHANGED ctRest

\* ws.onerror: the socket is CLOSED already and its close event follows in the
\* same task
CT_onerror(s) ==
    /\ dashWs.task = 0
    /\ s \in DOMAIN dashWs.sockets
    /\ dashWs.sockets[s].readyState # "CLOSED"
    /\ dashWs' = [dashWs EXCEPT !.sockets[s].readyState = "CLOSED", !.task = s]
    /\ dashboardStore' = Dash_setConnectionError(dashboardStore, ErrDashSocket)
    /\ UNCHANGED ctRest

\* ws.onclose: after the error event of s, or as the close of a socket that had
\* opened
CT_onclose(s) ==
    /\ s \in DOMAIN dashWs.sockets
    /\ \/ dashWs.task = s
       \/ dashWs.task = 0 /\ dashWs.sockets[s].readyState = "OPEN"
    /\ dashWs' = [dashWs EXCEPT
                    !.sockets = Referenced([dashWs.sockets EXCEPT ![s].readyState = "CLOSED"],
                                           dashWs.ref, 0),
                    !.task = 0,
                    !.timers = @ + 1]
    /\ dashboardStore' = Dash_setConnected(dashboardStore, FALSE)
    /\ UNCHANGED ctRest

\* useDashboardStore.getState().clearEvents()
CT_clearEvents ==
    /\ dashboardStore' = Dash_clearEvents(dashboardStore)
    /\ UNCHANGED <<simulationStore, hookVars, pushed, lastFrame, frameCount, uiVars>>

(***************************************************************************)
(* Inbound frames and queries                                              *)
(***************************************************************************)
IsEnvelope(frame, topic) == frame.text = "envelope" /\ frame.value.topic = topic

\* a message event on socket s of the world-viewer (delivered only while s is OPEN)
WV_onmessage(s, frame) ==
    /\ s \in DOMAIN sockets
    /\ sockets[s].readyState = "OPEN"
    /\ simulationStore' = Sim_onmessage(simulationStore, frame)
    /\ lastFrame' = [by |-> "world-viewer", frame |-> frame]
    /\ frameCount' = frameCount + 1
    /\ UNCHANGED <<uiVars, dashboardStore, pushed, hookVars>>

\* a click that selects one of the agents shown, or clears the selection
WV_selectAgent(agent) ==
    /\ simulationStore' = Sim_selectAgent(simulationStore, agent)
    /\ UNCHANGED <<uiVars, dashboardStore, pushed, hookVars, lastFrame, frameCount>>

\* a message event on the socket of the control-tower
CT_onmessage(frame) ==
    /\ dashboardStore' = Dash_onmessage(dashboardStore, frame)
    /\ pushed' = IF IsEnvelope(frame, "metrics.update")
                 THEN Append(pushed, frame.value.data) ELSE pushed
    /\ lastFrame' = [by |-> "control-tower", frame |-> frame]
    /\ frameCount' = frameCount + 1
    /\ UNCHANGED <<uiVars, simulationStore, hookVars>>

\* the current-metrics query of useDashboardData: onSuccess: (data) => updateMetrics(data)
CT_metricsQuerySuccess(data) ==
    /\ dashboardStore' = Dash_updateMetrics(dashboardStore, data)
    /\ pushed' = Append(pushed, data)
    /\ dashQueries' = [dashQueries EXCEPT !.currentMetrics = data]
    /\ UNCHANGED <<control, worldContainer, wheelCount, pageVars, simulationStore, hookVars,
                   lastFrame, frameCount>>

(***************************************************************************)
(* The control-tower metric history: samples arrive pushed (metrics.update)*)
(* and pulled (the current-metrics query); the n-th sample to arrive       *)
(* carries timestamp n.                                                    *)
(***************************************************************************)
NextSample == [timestamp |-> Len(pushed) + 1]

NextMetrics ==
    \/ /\ Len(pushed) < MaxPush
       /\ CT_onmessage([text |-> "envelope",
                        value |-> [topic |-> "metrics.update", data |-> NextSample]])
    \/ /\ Len(pushed) < MaxPush
       /\ CT_metricsQuerySuccess(NextSample)

SpecMetrics == Init /\ [][NextMetrics]_vars

(***************************************************************************)
(* The same history with the refresh button of the control-tower Header.   *)
(* refreshData, as useDashboardData overrides it, fetches nothing: it      *)
(* hands the data the queries hold to the store once more.  (The status,   *)
(* scenarios and snapshots it hands over too are the values their onSuccess*)
(* has stored already.)                                                    *)
(***************************************************************************)
\* refreshData: currentMetrics && updateMetrics(currentMetrics)
CT_refreshData ==
    /\ IF dashQueries.currentMetrics # Null
       THEN /\ dashboardStore' = Dash_updateMetrics(dashboardStore, dashQueries.currentMetrics)
            /\ pushed' = Append(pushed, dashQueries.currentMetrics)
       ELSE UNCHANGED <<dashboardStore, pushed>>
    /\ UNCHANGED <<simulationStore, hookVars, lastFrame, frameCount, uiVars>>

NextHistory ==
    \/ /\ Len(pushed) < MaxHistoryPush
       /\ CT_onmessage([text |-> "envelope",
                        value |-> [topic |-> "metrics.update", data |-> NextSample]])
    \/ /\ Len(pushed) < MaxHistoryPush
       /\ CT_metricsQuerySuccess(NextSample)
    \/ /\ Len(pushed) < MaxHistoryPush
       /\ CT_refreshData

SpecHistory == Init /\ [][NextHistory]_vars

(***************************************************************************)
(* The actions of the control-tower store, called directly                 *)
(***************************************************************************)
\* useDashboardStore.getState().updateMetrics(metrics)
CT_updateMetrics(metrics) ==
    /\ dashboardStore' = Dash_updateMetrics(dashboardStore, metrics)
    /\ pushed' = Append(pushed, metrics)
    /\ UNCHANGED <<simulationStore, hookVars, lastFrame, frameCount, uiVars>>

\* useDashboardStore.getState().reset()
CT_reset ==
    /\ dashboardStore' = Dash_reset(dashboardStore)
    /\ UNCHANGED <<simulationStore, hookVars, pushed, lastFrame, frameCount, uiVars>>

NextDashStore ==
    \/ /\ Len(pushed) < MaxStorePush
       /\ CT_updateMetrics(NextSample)
    \/ CT_reset

SpecDashStore == Init /\ [][NextDashStore]_vars

(***************************************************************************)
(* The message routers of both dashboards, each on an open channel.  The   *)
(* world-viewer part of the initial state is the one connect() and then    *)
(* ws.onopen leave (see ConnectedAfterOpen below).                         *)
(***************************************************************************)
InitWorld ==
    /\ dashboardStore = Dash_setConnected(DashInitialState, TRUE)
    /\ simulationStore = Sim_setConnected(SimInitialState, TRUE)
    /\ wsRef = 1
    /\ connectionState = "connected"
    /\ reconnectTimeoutRef = 0
    /\ reconnectAttempts = 0
    /\ sockets = <<[readyState |-> "OPEN", sent |-> <<"subscribe">>, by |-> "connect"]>>
    /\ socketCount = 1
    /\ timers = {}
    /\ task = 0
    /\ userCalls = 1
    /\ pushed = <<>>
    /\ shutdown = FALSE
    /\ scheduledSinceOpen = 0
    /\ lastFrame = NoFrame
    /\ frameCount = 0
    /\ control = ControlUnmounted
    /\ worldContainer = ContainerInitial
    /\ wheelCount = 0
    /\ dashQueries = DashQueriesInitial
    /\ cameraControls = ControlsInitial
    /\ apiFailure = NoFailure
    /\ dashWs = DashWsInitial

ShownAgents == {simulationStore.agents[i] : i \in DOMAIN simulationStore.agents}

NextWorld ==
    \/ /\ frameCount < MaxFrames
       /\ \E s \in DOMAIN sockets, frame \in Frames : WV_onmessage(s, frame)
    \/ /\ frameCount < MaxFrames
       /\ \E frame \in Frames : CT_onmessage(frame)
    \/ \E agent \in ShownAgents \cup {Null} : WV_selectAgent(agent)

SpecWorld == InitWorld /\ [][NextWorld]_vars

(***************************************************************************)
(* The event logs.  The two dashboards are separate pages that share no   *)
(* state: a behaviour follows one of them, on its open channel (the state  *)
(* its open handler leaves).  The k-th event frame of a channel carries    *)
(* timestamp k; every third one is a policy.vote, the others events.stream.*)
(***************************************************************************)
\* the state with the channel of the world-viewer open or not (wvOpen), the one
\* of the control-tower open or not (ctOpen), and the command hook as given
InitWith(wvOpen, ctOpen, ctl) ==
    /\ dashboardStore = Dash_setConnected(DashInitialState, ctOpen)
    /\ simulationStore = Sim_setConnected(SimInitialState, wvOpen)
    /\ wsRef = IF wvOpen THEN 1 ELSE 0
    /\ connectionState = IF wvOpen THEN "connected" ELSE "disconnected"
    /\ reconnectTimeoutRef = 0
    /\ reconnectAttempts = 0
    /\ sockets = IF wvOpen
                 THEN <<[readyState |-> "OPEN", sent |-> <<"subscribe">>, by |-> "connect"]>>
                 ELSE <<>>
    /\ socketCount = IF wvOpen THEN 1 ELSE 0
    /\ timers = {}
    /\ task = 0
    /\ userCalls = IF wvOpen THEN 1 ELSE 0
    /\ pushed = <<>>
    /\ shutdown = FALSE
    /\ scheduledSinceOpen = 0
    /\ lastFrame = NoFrame
    /\ frameCount = 0
    /\ control = ctl
    /\ worldContainer = ContainerInitial
    /\ wheelCount = 0
    /\ dashQueries = DashQueriesInitial
    /\ cameraControls = ControlsInitial
    /\ apiFailure = NoFailure
    /\ dashWs = IF ctOpen THEN DashWsOpen ELSE DashWsInitial

InitEvents ==
    \E viewer \in {"world-viewer", "control-tower"} :
        InitWith(viewer = "world-viewer", viewer = "control-tower", ControlUnmounted)

\* the timestamp of the event handled last (0: none yet)
LastStamp(events) == IF events = <<>> THEN 0 ELSE events[Len(events)].timestamp

EventFrame(k) ==
    [text |-> "envelope",
     value |-> IF k % 3 = 0
               THEN [topic |-> "policy.vote", data |-> [timestamp |-> k, member_id |-> 9]]
               ELSE [topic |-> "events.stream", data |-> [timestamp |-> k, event_type |-> "e"]]]

NextEvents ==
    \/ /\ LastStamp(simulationStore.events) < MaxSimEvents
       /\ \E s \in DOMAIN sockets :
             WV_onmessage(s, EventFrame(LastStamp(simulationStore.events) + 1))
    \/ /\ LastStamp(dashboardStore.events) < MaxDashEvents
       /\ dashboardStore.isConnected
       /\ CT_onmessage(EventFrame(LastStamp(dashboardStore.events) + 1))

SpecEvents == InitEvents /\ [][NextEvents]_vars

(***************************************************************************)
(* A dashboard session whose channel drops and re-opens while frames       *)
(* arrive, agents are selected and the reset actions of the stores are     *)
(* called.  A behaviour follows one dashboard, from the state its first    *)
(* open handler leaves.                                                    *)
(***************************************************************************)
InitReconnect ==
    \E viewer \in {"world-viewer", "control-tower"} :
        InitWith(viewer = "world-viewer", viewer = "control-tower", ControlUnmounted)

\* frames of a session: a sample, a delta with one agent, an empty delta, an event
ReconnectFrames ==
    {[text |-> "envelope", value |-> e] :
        e \in {[topic |-> "metrics.update", data |-> [timestamp |-> 1]],
               [topic |-> "world.delta",
                data |-> [actors_delta |-> <<AgentRecord(5, "firm", "active")>>]],
               [topic |-> "world.delta", data |-> [actors_delta |-> <<>>]],
               [topic |-> "events.stream",
                data |-> [timestamp |-> 1, event_type |-> "default", payload |-> "p"]]}}

\* the page followed is the world-viewer / the control-tower
WorldViewerPage == socketCount > 0
ControlTowerPage == dashWs.created > 0

NextReconnect ==
    \/ \E t \in timers : WV_reconnectTimer(t)
    \/ \E s \in DOMAIN sockets : WV_onopen(s)
    \/ \E s \in DOMAIN sockets : WV_onerror(s)
    \/ \E s \in DOMAIN sockets : WV_onclose(s)
    \/ /\ frameCount < MaxReconnectFrames
       /\ task = 0
       /\ \E s \in DOMAIN sockets, frame \in ReconnectFrames : WV_onmessage(s, frame)
    \/ /\ WorldViewerPage
       /\ task = 0
       /\ \E agent \in ShownAgents \cup {Null} : WV_selectAgent(agent)
    \/ /\ WorldViewerPage
       /\ WV_reset
    \/ CT_connectWebSocket
    \/ \E s \in DOMAIN dashWs.sockets : CT_onopen(s)
    \/ \E s \in DOMAIN dashWs.sockets : CT_onerror(s)
    \/ \E s \in DOMAIN dashWs.sockets : CT_onclose(s)
    \/ /\ frameCount < MaxReconnectFrames
       /\ dashWs.task = 0
       /\ \E s \in DOMAIN dashWs.sockets : dashWs.sockets[s].readyState = "OPEN"
       /\ \E frame \in ReconnectFrames : CT_onmessage(frame)
    \/ /\ ControlTowerPage
       /\ dashWs.task = 0
       /\ CT_reset
    \/ /\ ControlTowerPage
       /\ dashWs.task = 0
       /\ CT_clearEvents

SpecReconnect == InitReconnect /\ [][NextReconnect]_vars

(***************************************************************************)
(* The commands of the world-viewer (useSimulationControl), the            *)
(* simulation-status query (useSimulationData) and the jump input of the   *)
(* TimeBar.  @tanstack/react-query is not part of the sources and the      *)
(* hooks use the API of two major versions: useMutation().isPending exists *)
(* from version 5 on (version 4 names it isLoading), the onSuccess option  *)
(* of useQuery exists up to version 4 (version 5 ignores it).  The version *)
(* installed is a choice of the build: control.reactQuery.                 *)
(*   A useMutation observer follows the mutation started by its last       *)
(* mutate() call; a mutation started earlier and still running goes on     *)
(* (its onSuccess / onError options are called when it settles) but is no  *)
(* longer what the observer reports.  invalidateQueries refetches the      *)
(* status query, which is mounted for the whole life of the App.           *)
(***************************************************************************)
\* Math.min, Math.max
Min(a, b) == IF a < b THEN a ELSE b

Max(a, b) == IF a > b THEN a ELSE b

ReactQueryVersions == {4, 5}

Kinds == {"play", "pause", "step", "setSpeed", "jump", "rewind", "reset"}

\* the message each onError falls back to: '播放失败', '暂停失败', '步进失败',
\* '设置速度失败', '时间跳转失败', '倒带失败', '重置失败'
Fallback(kind) ==
    CASE kind = "play"     -> "play failed"
      [] kind = "pause"    -> "pause failed"
      [] kind = "step"     -> "step failed"
      [] kind = "setSpeed" -> "set speed failed"
      [] kind = "jump"     -> "time jump failed"
      [] kind = "rewind"   -> "rewind failed"
      [] kind = "reset"    -> "reset failed"

\* what a command promise rejects with: the Error of axios or of the response
\* interceptor (new Error(error.response.data.error)), its message empty or not
CommandErrors == {[message |-> "Network Error"], [message |-> ""]}

\* error.message || fallback
MessageOr(error, fallback) ==
    IF "message" \in DOMAIN error /\ error.message # "" THEN error.message ELSE fallback

NoCommand == [kind |-> "none"]

NoError == [none |-> TRUE]

\* the state useSimulationControl and the status query are in once mounted: no
\* mutation started, the status query fetching for the first time
ControlMounted(version) ==
    [ mounted      |-> TRUE,
      reactQuery   |-> version,
      mutation     |-> [k \in Kinds |-> "idle"],   \* the mutation each observer follows
      detached     |-> [k \in Kinds |-> 0],        \* running mutations no observer follows
      statusQuery  |-> [fetching |-> TRUE, data |-> Null],
      jumpTarget   |-> <<>>,                       \* TimeBar: useState('')
      showJumpInput |-> FALSE,                     \* TimeBar: useState(false)
      issued       |-> 0,                          \* history: mutate() calls
      lastIssued   |-> NoCommand,                  \* history: the last mutate() call
      lastSettled  |-> NoCommand,                  \* history: the command settled last
      refetched    |-> FALSE ]                     \* history: a status fetch succeeded since
                                                   \* the last command that succeeded

\* mutation.mutate(variables) of the observer of kind; args is <<>> for a
\* command without variables
Mutate(ctl, kind, args) ==
    [ctl EXCEPT !.detached[kind] = IF ctl.mutation[kind] = "running" THEN @ + 1 ELSE @,
                !.mutation[kind] = "running",
                !.issued = @ + 1,
                !.lastIssued = [kind |-> kind, args |-> args]]

\* the result object useMutation returns for a mutation in the given state
MutationResult(version, state) ==
    IF version = 4
    THEN [status    |-> IF state = "running" THEN "loading" ELSE state,
          isLoading |-> state = "running"]
    ELSE [status    |-> IF state = "running" THEN "pending" ELSE state,
          isPending |-> state = "running"]

\* isLoading of useSimulationControl: playMutation.isPending || ... ||
\* resetMutation.isPending, as a condition (undefined is falsy)
isLoading ==
    \E k \in Kinds :
        LET result == MutationResult(control.reactQuery, control.mutation[k])
        IN  "isPending" \in DOMAIN result /\ result.isPending

\* commands issued and not settled yet
InFlight ==
    {k \in Kinds : control.mutation[k] = "running" \/ control.detached[k] > 0}

\* what the callers pass: a speed, a target time, nothing
CommandArgs(kind) ==
    CASE kind = "setSpeed"           -> {<<2>>}
      [] kind \in {"jump", "rewind"} -> {<<50>>}
      [] OTHER                       -> {<<>>}

\* a call of play, pause, step, setSpeed, jump, rewind or reset of the hook
WV_command(kind, args) ==
    /\ control.mounted
    /\ control.issued < MaxCommands
    /\ control' = Mutate(control, kind, args)
    /\ UNCHANGED <<dashboardStore, simulationStore, hookVars, pushed, lastFrame, frameCount,
                   worldContainer, wheelCount, dashQueries, pageVars>>

\* the mutation of kind that settles: the one the observer follows, or a detached one
Settle(ctl, kind, followed, outcome, error) ==
    [ctl EXCEPT !.mutation[kind] = IF followed THEN outcome ELSE @,
                !.detached[kind] = IF followed THEN @ ELSE @ - 1,
                !.lastSettled = [kind |-> kind, outcome |-> outcome, error |-> error]]

CanSettle(kind, followed) ==
    /\ control.mounted
    /\ IF followed THEN control.mutation[kind] = "running" ELSE control.detached[kind] > 0

\* the promise of a command resolves: onSuccess invalidates ['simulation-status'],
\* which refetches the mounted status query (a fetch under way is cancelled and
\* started again)
WV_commandSuccess(kind, followed) ==
    /\ CanSettle(kind, followed)
    /\ control' = [Settle(control, kind, followed, "success", NoError)
                     EXCEPT !.statusQuery.fetching = TRUE, !.refetched = FALSE]
    /\ UNCHANGED <<dashboardStore, simulationStore, hookVars, pushed, lastFrame, frameCount,
                   worldContainer, wheelCount, dashQueries, pageVars>>

\* onError that reports the message of the failure as it is, empty or missing too
WV_commandError_noFallback(kind, followed, error) ==
    /\ CanSettle(kind, followed)
    /\ control' = Settle(control, kind, followed, "error", error)
    /\ simulationStore' = Sim_setConnectionError(simulationStore, MessageOr(error, ""))
    /\ UNCHANGED <<dashboardStore, hookVars, pushed, lastFrame, frameCount,
                   worldContainer, wheelCount, dashQueries, pageVars>>

\* the promise of a command rejects: onError: setConnectionError(error.message || fallback)
WV_commandError(kind, followed, error) ==
    /\ CanSettle(kind, followed)
    /\ control' = Settle(control, kind, followed, "error", error)
    /\ simulationStore' = Sim_setConnectionError(simulationStore, MessageOr(error, Fallback(kind)))
    /\ UNCHANGED <<dashboardStore, hookVars, pushed, lastFrame, frameCount,
                   worldContainer, wheelCount, dashQueries, pageVars>>

\* what getStatus answers
StatusSamples == {[state |-> "running", current_time |-> 120],
                  [state |-> "paused", current_time |-> 0]}

\* the status fetch resolves; useQuery calls onSuccess (updateSimulationStatus)
\* where the library has that option
WV_statusFetchSuccess(data) ==
    /\ control.mounted
    /\ control.statusQuery.fetching
    /\ control' = [control EXCEPT !.statusQuery = [fetching |-> FALSE, data |-> data],
                                  !.refetched = TRUE]
    /\ simulationStore' = IF control.reactQuery = 4
                          THEN Sim_updateSimulationStatus(simulationStore, data)
                          ELSE simulationStore
    /\ UNCHANGED <<dashboardStore, hookVars, pushed, lastFrame, frameCount,
                   worldContainer, wheelCount, dashQueries, pageVars>>

\* the status fetch fails (after the retries of the library)
WV_statusFetchError ==
    /\ control.mounted
    /\ control.statusQuery.fetching
    /\ control' = [control EXCEPT !.statusQuery.fetching = FALSE]
    /\ UNCHANGED <<dashboardStore, simulationStore, hookVars, pushed, lastFrame, frameCount,
                   worldContainer, wheelCount, dashQueries, pageVars>>

\* refetchInterval: isConnected ? false : 2000
WV_statusPoll ==
    /\ control.mounted
    /\ connectionState # "connected"
    /\ ~ control.statusQuery.fetching
    /\ control' = [control EXCEPT !.statusQuery.fetching = TRUE]
    /\ UNCHANGED <<dashboardStore, simulationStore, hookVars, pushed, lastFrame, frameCount,
                   worldContainer, wheelCount, dashQueries, pageVars>>

(***************************************************************************)
(* TimeBar.handleJump.  The text of the <input type="number"> is a         *)
(* sequence of characters: empty, or a valid floating-point number.        *)
(***************************************************************************)
DigitChars == <<"0", "1", "2", "3", "4", "5", "6", "7", "8", "9">>

IsDigit(c) == \E i \in DOMAIN DigitChars : DigitChars[i] = c

DigitValue(c) == (CHOOSE i \in DOMAIN DigitChars : DigitChars[i] = c) - 1

RECURSIVE DecimalValue(_)
DecimalValue(digits) ==
    IF digits = <<>> THEN 0
    ELSE 10 * DecimalValue(SubSeq(digits, 1, Len(digits) - 1)) + DigitValue(digits[Len(digits)])

\* parseInt(text): an optional sign, then the longest run of digits; NaN without one
ParseInt(text) ==
    LET signed == text # <<>> /\ text[1] \in {"-", "+"}
        start  == IF signed THEN 2 ELSE 1
        stops  == {i \in start..Len(text) : ~ IsDigit(text[i])}
        end    == IF stops = {} THEN Len(text)
                  ELSE (CHOOSE i \in stops : \A j \in stops : i <= j) - 1
    IN  IF end < start THEN [nan |-> TRUE]
        ELSE [nan   |-> FALSE,
              value |-> (IF signed /\ text[1] = "-" THEN -1 ELSE 1)
                          * DecimalValue(SubSeq(text, start, end))]

\* simulationStatus?.current_time || 0
CurrentTime(store) ==
    IF store.simulationStatus = Null THEN 0 ELSE store.simulationStatus.current_time

\* the command handleJump issues for the text typed, or none
HandleJump(jumpTarget, currentTime) ==
    LET target == ParseInt(jumpTarget)
    IN  IF ~ target.nan /\ target.value >= 0
        THEN [kind |-> IF target.value < currentTime THEN "rewind" ELSE "jump",
              args |-> <<target.value>>]
        ELSE NoCommand

\* texts typed into the jump input
JumpInputs == { <<>>, <<"5", "0">>, <<"1", "2", "0">>, <<"2", "0", "0">>, <<"-", "5">>,
                <<"1", "e", "3">>, <<"-", "0", ".", "5">> }

\* the button that shows and hides the jump input: disabled={isLoading},
\* onClick: setShowJumpInput(!showJumpInput)
TimeBar_toggleJumpInput ==
    /\ control.mounted
    /\ ~ isLoading
    /\ control' = [control EXCEPT !.showJumpInput = ~ @]
    /\ UNCHANGED <<dashboardStore, simulationStore, hookVars, pushed, lastFrame, frameCount,
                   worldContainer, wheelCount, dashQueries, pageVars>>

\* the cancel button beside the jump input: setShowJumpInput(false)
TimeBar_cancelJump ==
    /\ control.mounted
    /\ control.showJumpInput
    /\ control' = [control EXCEPT !.showJumpInput = FALSE]
    /\ UNCHANGED <<dashboardStore, simulationStore, hookVars, pushed, lastFrame, frameCount,
                   worldContainer, wheelCount, dashQueries, pageVars>>

\* onChange of the jump input: setJumpTarget(e.target.value)
TimeBar_setJumpTarget(text) ==
    /\ control.mounted
    /\ control.showJumpInput
    /\ control' = [control EXCEPT !.jumpTarget = text]
    /\ UNCHANGED <<dashboardStore, simulationStore, hookVars, pushed, lastFrame, frameCount,
                   worldContainer, wheelCount, dashQueries, pageVars>>

\* the button beside the jump input (it has no disabled attribute): handleJump()
TimeBar_handleJump ==
    /\ control.mounted
    /\ control.showJumpInput
    /\ control.issued < MaxJumps
    /\ LET cmd == HandleJump(control.jumpTarget, CurrentTime(simulationStore))
       IN  control' = IF cmd = NoCommand
                      THEN control
                      ELSE [Mutate(control, cmd.kind, cmd.args)
                              EXCEPT !.jumpTarget = <<>>, !.showJumpInput = FALSE]
    /\ UNCHANGED <<dashboardStore, simulationStore, hookVars, pushed, lastFrame, frameCount,
                   worldContainer, wheelCount, dashQueries, pageVars>>

\* the buttons and the speed select of the TimeBar that send a command
TimeBarButtons == {"play", "pause", "step", "rewind", "setSpeed"}

\* simulationStatus?.state === 'running'
IsRunning(store) ==
    store.simulationStatus # Null /\ store.simulationStatus.state = "running"

\* the control is rendered and its disabled attribute is false
TimeBarEnabled(button) ==
    CASE button = "pause"    -> IsRunning(simulationStore) /\ ~ isLoading
      [] button = "play"     -> ~ IsRunning(simulationStore) /\ ~ isLoading
      [] button = "step"     -> ~ (isLoading \/ IsRunning(simulationStore))
      [] button = "rewind"   -> ~ (isLoading \/ CurrentTime(simulationStore) = 0)
      [] button = "setSpeed" -> ~ isLoading

\* what the control passes: step(1), rewind(Math.max(0, currentTime - 100)),
\* setSpeed(parseFloat(e.target.value)), play(), pause()
TimeBarArgs(button) ==
    CASE button = "step"     -> <<1>>
      [] button = "rewind"   -> <<Max(0, CurrentTime(simulationStore) - 100)>>
      [] button = "setSpeed" -> <<2>>
      [] OTHER               -> <<>>

\* a click on a control of the TimeBar that is enabled
TimeBar_click(button) ==
    /\ control.mounted
    /\ TimeBarEnabled(button)
    /\ control.issued < MaxCommands
    /\ control' = Mutate(control, button, TimeBarArgs(button))
    /\ UNCHANGED <<dashboardStore, simulationStore, hookVars, pushed, lastFrame, frameCount,
                   worldContainer, wheelCount, dashQueries, pageVars>>

\* frames that fill the store of the world-viewer while commands run
ControlFrames ==
    { [text |-> "envelope",
       value |-> [topic |-> "world.delta",
                  data |-> [actors_delta |-> <<AgentRecord(5, "firm", "active")>>]]] }

InitControl ==
    \E wvOpen \in BOOLEAN, version \in ReactQueryVersions :
        InitWith(wvOpen, FALSE, ControlMounted(version))

NextControl ==
    \/ \E kind \in Kinds : \E args \in CommandArgs(kind) : WV_command(kind, args)
    \/ \E kind \in Kinds, followed \in BOOLEAN : WV_commandSuccess(kind, followed)
    \/ \E kind \in Kinds, followed \in BOOLEAN, error \in CommandErrors :
          WV_commandError(kind, followed, error)
    \/ \E data \in StatusSamples : WV_statusFetchSuccess(data)
    \/ WV_statusFetchError
    \/ WV_statusPoll
    \/ /\ frameCount < MaxControlFrames
       /\ \E s \in DOMAIN sockets, frame \in ControlFrames : WV_onmessage(s, frame)

SpecControl == InitControl /\ [][NextControl]_vars

\* the jump input of the TimeBar, the status query and the two commands it issues
NextJump ==
    \/ TimeBar_toggleJumpInput
    \/ TimeBar_cancelJump
    \/ \E text \in JumpInputs : TimeBar_setJumpTarget(text)
    \/ TimeBar_handleJump
    \/ \E kind \in {"jump", "rewind"}, followed \in BOOLEAN : WV_commandSuccess(kind, followed)
    \/ \E kind \in {"jump", "rewind"}, followed \in BOOLEAN, error \in CommandErrors :
          WV_commandError(kind, followed, error)
    \/ \E data \in StatusSamples : WV_statusFetchSuccess(data)
    \/ WV_statusFetchError
    \/ WV_statusPoll

SpecJump == InitControl /\ [][NextJump]_vars

\* the controls of the TimeBar as the user can work them
NextTimeBar ==
    \/ \E button \in TimeBarButtons : TimeBar_click(button)
    \/ TimeBar_toggleJumpInput
    \/ TimeBar_cancelJump
    \/ \E text \in {<<"5", "0">>, <<"2", "0", "0">>} : TimeBar_setJumpTarget(text)
    \/ TimeBar_handleJump
    \/ \E kind \in Kinds, followed \in BOOLEAN : WV_commandSuccess(kind, followed)
    \/ \E kind \in Kinds, followed \in BOOLEAN, error \in CommandErrors :
          WV_commandError(kind, followed, error)
    \/ \E data \in StatusSamples : WV_statusFetchSuccess(data)
    \/ WV_statusFetchError
    \/ WV_statusPoll

SpecTimeBar == InitControl /\ [][NextTimeBar]_vars

(***************************************************************************)
(* The camera of the WorldViewer.  Zoom factors are numbers of millionths  *)
(* (ZoomUnit is 1.0), products are rounded down to a millionth.  The wheel *)
(* listener reads the scale of the PixiJS container and writes the camera  *)
(* of the store; the store update re-renders WorldViewer synchronously and *)
(* its camera effect copies camera.zoom back to the container before the   *)
(* next event is handled, so the write-back is part of the same step.      *)
(***************************************************************************)
ZoomMin == 100000
ZoomMax == 5000000

\* deltaY of a wheel event
WheelDeltas == {-100, 0, 100}

\* e.deltaY > 0 ? 0.9 : 1.1, in tenths
ZoomFactor(deltaY) == IF deltaY > 0 THEN 9 ELSE 11

\* the wheel listener without Math.max and Math.min
WV_wheel_unclamped(deltaY) ==
    /\ wheelCount < MaxWheel
    /\ wheelCount' = wheelCount + 1
    /\ LET newZoom == (worldContainer.scale * ZoomFactor(deltaY)) \div 10
       IN  /\ simulationStore' = Sim_updateCamera(simulationStore, [zoom |-> newZoom])
           /\ worldContainer' = ApplyCamera(simulationStore'.camera)
    /\ UNCHANGED <<dashboardStore, hookVars, pushed, lastFrame, frameCount, control, dashQueries,
                   pageVars>>

\* app.canvas 'wheel' listener, then the camera effect:
\*   newZoom = Math.max(0.1, Math.min(5, worldContainer.scale.x * zoomFactor))
\*   updateCamera({zoom: newZoom}); worldContainer.scale.set(camera.zoom)
WV_wheel(deltaY) ==
    /\ wheelCount < MaxWheel
    /\ wheelCount' = wheelCount + 1
    /\ LET currentZoom == worldContainer.scale
           newZoom == Max(ZoomMin, Min(ZoomMax, (currentZoom * ZoomFactor(deltaY)) \div 10))
       IN  /\ simulationStore' = Sim_updateCamera(simulationStore, [zoom |-> newZoom])
           /\ worldContainer' = ApplyCamera(simulationStore'.camera)
    /\ UNCHANGED <<dashboardStore, hookVars, pushed, lastFrame, frameCount, control, dashQueries,
                   pageVars>>

\* clientX, clientY of a mouse event
Pointers == {[x |-> a, y |-> b] : a \in {0, 10, 25}, b \in {0, 7}}

MouseEvent(type, pointer) == [type |-> type, x |-> pointer.x, y |-> pointer.y]

\* app.canvas 'mousedown' listener
WV_mousedown(e) ==
    /\ cameraControls.pointerEvents < MaxPointerEvents
    /\ cameraControls' =
          [ isDragging    |-> TRUE,
            dragStart     |-> [x |-> e.x, y |-> e.y],
            lastPosition  |-> [x |-> worldContainer.x, y |-> worldContainer.y],
            pointerEvents |-> cameraControls.pointerEvents + 1,
            lastEvent     |-> e ]
    /\ UNCHANGED <<dashboardStore, simulationStore, hookVars, pushed, lastFrame, frameCount,
                   control, worldContainer, wheelCount, dashQueries, apiFailure, dashWs>>

\* a mutation of the 'mousemove' listener: the offset is added to the position
\* of the container, not to the one recorded at mousedown
WV_mousemove_fromContainer(e) ==
    /\ cameraControls.pointerEvents < MaxPointerEvents
    /\ cameraControls' = [cameraControls EXCEPT !.pointerEvents = @ + 1, !.lastEvent = e]
    /\ IF ~ cameraControls.isDragging
       THEN UNCHANGED <<simulationStore, worldContainer>>
       ELSE LET newX == worldContainer.x + (e.x - cameraControls.dragStart.x)
                newY == worldContainer.y + (e.y - cameraControls.dragStart.y)
            IN  /\ simulationStore' = Sim_updateCamera(simulationStore, [x |-> newX, y |-> newY])
                /\ worldContainer' = ApplyCamera(simulationStore'.camera)
    /\ UNCHANGED <<dashboardStore, hookVars, pushed, lastFrame, frameCount, control, wheelCount,
                   dashQueries, apiFailure, dashWs>>

\* app.canvas 'mousemove' listener, then the camera effect:
\*   if (!isDragging) return
\*   updateCamera({x: lastPosition.x + e.clientX - dragStart.x, y: ...})
WV_mousemove(e) ==
    /\ cameraControls.pointerEvents < MaxPointerEvents
    /\ cameraControls' = [cameraControls EXCEPT !.pointerEvents = @ + 1, !.lastEvent = e]
    /\ IF ~ cameraControls.isDragging
       THEN UNCHANGED <<simulationStore, worldContainer>>
       ELSE LET deltaX == e.x - cameraControls.dragStart.x
                deltaY == e.y - cameraControls.dragStart.y
                newX == cameraControls.lastPosition.x + deltaX
                newY == cameraControls.lastPosition.y + deltaY
            IN  /\ simulationStore' = Sim_updateCamera(simulationStore, [x |-> newX, y |-> newY])
                /\ worldContainer' = ApplyCamera(simulationStore'.camera)
    /\ UNCHANGED <<dashboardStore, hookVars, pushed, lastFrame, frameCount, control, wheelCount,
                   dashQueries, apiFailure, dashWs>>

\* app.canvas 'mouseup' listener
WV_mouseup(e) ==
    /\ cameraControls.pointerEvents < MaxPointerEvents
    /\ cameraControls' = [cameraControls EXCEPT !.isDragging = FALSE,
                                                !.pointerEvents = @ + 1, !.lastEvent = e]
    /\ UNCHANGED <<dashboardStore, simulationStore, hookVars, pushed, lastFrame, frameCount,
                   control, worldContainer, wheelCount, dashQueries, apiFailure, dashWs>>

InitCamera == InitWith(FALSE, FALSE, ControlUnmounted)

\* the mouse on the canvas: drags, and the wheel between them
NextDrag ==
    \/ \E pointer \in Pointers : WV_mousedown(MouseEvent("mousedown", pointer))
    \/ \E pointer \in Pointers : WV_mousemove(MouseEvent("mousemove", pointer))
    \/ \E pointer \in Pointers : WV_mouseup(MouseEvent("mouseup", pointer))
    \/ /\ wheelCount < MaxDragWheel
       /\ \E deltaY \in WheelDeltas : WV_wheel(deltaY)

SpecDrag == InitCamera /\ [][NextDrag]_vars

NextCamera == \E deltaY \in WheelDeltas : WV_wheel(deltaY)

SpecCamera == InitCamera /\ [][NextCamera]_vars

(***************************************************************************)
(* The API clients of the two dashboards: an axios instance each, with a   *)
(* response interceptor that turns the error axios rejects with into the   *)
(* error the caller sees.                                                  *)
(***************************************************************************)
\* '无法连接到服务器，请确保后端服务正在运行'
ErrNoServer == "cannot reach the server, make sure the backend is running"

ApiClients == {"control-tower", "world-viewer"}

\* calls of simulationApi
ApiCalls == Kinds \cup {"getStatus", "getCurrentMetrics"}

\* the errors axios rejects with: an error response with data.error, one with
\* an empty data.error, one with other data, one without data; no response:
\* connection refused (Node.js), network error (browser), timeout
AxiosErrors ==
    { [response |-> [status |-> 400, data |-> [error |-> "simulation is not running"]],
       code |-> "ERR_BAD_REQUEST", message |-> "Request failed with status code 400"],
      [response |-> [status |-> 400, data |-> [error |-> ""]],
       code |-> "ERR_BAD_REQUEST", message |-> "Request failed with status code 400"],
      [response |-> [status |-> 500, data |-> [detail |-> "Internal Server Error"]],
       code |-> "ERR_BAD_RESPONSE", message |-> "Request failed with status code 500"],
      [response |-> [status |-> 502, data |-> Null],
       code |-> "ERR_BAD_RESPONSE", message |-> "Request failed with status code 502"],
      [response |-> Null, code |-> "ECONNREFUSED",
       message |-> "connect ECONNREFUSED 127.0.0.1:8000"],
      [response |-> Null, code |-> "ERR_NETWORK", message |-> "Network Error"],
      [response |-> Null, code |-> "ECONNABORTED", message |-> "timeout of 10000ms exceeded"] }

\* error.response?.data?.error, as a condition
HasDataError(error) ==
    /\ error.response # Null
    /\ error.response.data # Null
    /\ "error" \in DOMAIN error.response.data
    /\ error.response.data.error # ""

\* api.interceptors.response.use(ok, (error) => {...}): what the rejection
\* handler throws.  Only the client of the control-tower has the ECONNREFUSED
\* branch.
Interceptor(client, error) ==
    IF HasDataError(error) THEN [message |-> error.response.data.error]
    ELSE IF client = "control-tower" /\ error.code = "ECONNREFUSED"
         THEN [message |-> ErrNoServer]
         ELSE error

\* a call of simulationApi is rejected
API_callFails(client, call, error) ==
    /\ apiFailure' = [client |-> client, call |-> call, error |-> error,
                      thrown |-> Interceptor(client, error)]
    /\ UNCHANGED <<dashboardStore, simulationStore, hookVars, pushed, lastFrame, frameCount,
                   control, worldContainer, wheelCount, dashQueries, cameraControls, dashWs>>

NextApi ==
    \E client \in ApiClients, call \in ApiCalls, error \in AxiosErrors :
        API_callFails(client, call, error)

SpecApi == Init /\ [][NextApi]_vars

(***************************************************************************)
(* Events of the world-viewer connection, read off a step                  *)
(***************************************************************************)
\* the open event of s is handled in this step
OpenEvent(s) ==
    /\ s \in DOMAIN sockets
    /\ sockets[s].readyState = "CONNECTING"
    /\ s \in DOMAIN sockets'
    /\ sockets'[s].readyState = "OPEN"

\* the error event of s is handled in this step
ErrorEvent(s) == s \in DOMAIN sockets /\ task = 0 /\ task' = s

\* the close event of s is handled in this step
CloseEvent(s) ==
    /\ s \in DOMAIN sockets
    /\ task' = 0
    /\ \/ task = s
       \/ /\ task = 0
          /\ sockets[s].readyState \in {"OPEN", "CLOSING"}
          /\ (s \notin DOMAIN sockets' \/ sockets'[s].readyState = "CLOSED")

\* disconnect() runs in this step
DisconnectCall == userCalls' = userCalls + 1 /\ shutdown'

LiveSockets == {s \in DOMAIN sockets : Live(sockets[s])}

\* the state InitWorld starts the world-viewer in: connect(), then ws.onopen
ConnectedAfterOpen ==
    /\ simulationStore = Sim_setConnected(SimInitialState, TRUE)
    /\ wsRef = 1 /\ connectionState = "connected" /\ reconnectTimeoutRef = 0
    /\ reconnectAttempts = 0 /\ timers = {} /\ task = 0 /\ userCalls = 1
    /\ sockets = <<[readyState |-> "OPEN", sent |-> <<"subscribe">>, by |-> "connect"]>>

(***************************************************************************)
(* C1  (SpecMetrics)                                                       *)
(***************************************************************************)
\* capacity of MetricHistory
MetricsHistoryCapacity == 100

\* the last min(n, capacity) of the n samples pushed, in arrival order
LatestPushed ==
    LET n == Len(pushed)
        m == IF n < MetricsHistoryCapacity THEN n ELSE MetricsHistoryCapacity
    IN  [i \in 1..m |-> pushed[n - m + i]]

\* C1: after any sequence of n updateMetrics calls, from the push channel or the
\* current-metrics query, metricsHistory is the last min(n, 100) pushed samples
\* in arrival order, so it never holds more than 100.
HistoryIsLatestPushed ==
    /\ Len(dashboardStore.metricsHistory) <= MetricsHistoryCapacity
    /\ dashboardStore.metricsHistory = LatestPushed

\* 150 samples with timestamps 1..150 were pushed and 51..150 are left, in order
HistoryAfter150 ==
    /\ Len(pushed) = 150
    /\ Len(dashboardStore.metricsHistory) = 100
    /\ \A i \in 1..100 : dashboardStore.metricsHistory[i].timestamp = 50 + i

(***************************************************************************)
(* C2, C3  (SpecWorld)                                                     *)
(***************************************************************************)
\* the world.delta frame with an actors_delta array handled in this step, if any
DeltaHandled ==
    /\ frameCount' = frameCount + 1
    /\ lastFrame'.by = "world-viewer"
    /\ IsEnvelope(lastFrame'.frame, "world.delta")
    /\ lastFrame'.frame.value.data # Null
    /\ "actors_delta" \in DOMAIN lastFrame'.frame.value.data

\* the fields of old overwritten by the fields present in delta
MergeFields(old, delta) == delta @@ old

\* C2: a world.delta that carries a partial record for an id already in the
\* registry leaves, for that id, the old record overwritten only by the fields
\* the delta has.
DeltaMergesById ==
    [][DeltaHandled =>
         LET delta == lastFrame'.frame.value.data.actors_delta
         IN  \A i \in DOMAIN delta :
                LET old == FindAgent(simulationStore.agents, delta[i].agent_id)
                IN  old # Null =>
                      FindAgent(simulationStore'.agents, delta[i].agent_id)
                        = MergeFields(old, delta[i])]_vars

AgentIdsOf(agents) == {agents[i].agent_id : i \in DOMAIN agents}

\* C3: handling a world.delta frame removes no entity from the registry: every id
\* in agents before the frame is in agents after it, also when actors_delta is empty.
DeltaRemovesNoEntity ==
    [][DeltaHandled =>
         AgentIdsOf(simulationStore.agents) \subseteq AgentIdsOf(simulationStore'.agents)]_vars

(***************************************************************************)
(* C4 - C9  (SpecConn)                                                     *)
(***************************************************************************)
\* C4: after disconnect(), in whatever connection state it was called, no
\* reconnect timer is pending until connect() is called again: the close event
\* the shutdown itself causes schedules no reconnect.
NoReconnectAfterShutdown == shutdown => timers = {}

\* C5: when a close has scheduled a reconnect timer and disconnect() is called
\* before the timer fires, the timer is cancelled: none is pending after
\* disconnect(), so none runs connect().
DisconnectCancelsScheduledReconnect ==
    [][(timers # {} /\ DisconnectCall) => timers' = {}]_vars

\* C6: at most one socket of the connection is CONNECTING or OPEN.
AtMostOneLiveChannel == Cardinality(LiveSockets) <= 1

SubscribeCount(sent) == Cardinality({i \in DOMAIN sent : sent[i] = "subscribe"})

\* C7: on every socket that opens, exactly one subscribe envelope is sent, in the
\* open handler (an OPEN socket is never seen without it), before every ping on
\* that socket; a subscribe is sent at no other time.
SubscribeOnceOnOpenBeforePings ==
    /\ [](\A s \in DOMAIN sockets :
            LET sent == sockets[s].sent
            IN  /\ sockets[s].readyState = "CONNECTING" => sent = <<>>
                /\ sockets[s].readyState = "OPEN" => sent # <<>>
                /\ sent # <<>> => /\ sent[1] = "subscribe"
                                  /\ \A i \in 2..Len(sent) : sent[i] = "ping")
    /\ [][\A s \in DOMAIN sockets \cap DOMAIN sockets' :
            SubscribeCount(sockets'[s].sent) # SubscribeCount(sockets[s].sent)
               => OpenEvent(s) /\ sockets'[s].sent = <<"subscribe">>]_vars

\* a ping was sent on an open socket, after its subscribe
PingSentAfterSubscribe ==
    \E s \in DOMAIN sockets : sockets[s].sent = <<"subscribe", "ping">>

\* C8 as stated: the counter is 0 right after any successful open, and it changes
\* otherwise only by +1, at the close of a failed attempt (a socket that never opened).
AttemptsCountFailedAttempts ==
    [][/\ (\E s \in DOMAIN sockets : OpenEvent(s)) => reconnectAttempts' = 0
       /\ (reconnectAttempts' # reconnectAttempts /\ ~ \E s \in DOMAIN sockets : OpenEvent(s))
             => /\ reconnectAttempts' = reconnectAttempts + 1
                /\ \E s \in DOMAIN sockets : CloseEvent(s) /\ sockets[s].sent = <<>>]_vars

\* C8 amended: the counter is 0 right after any successful open; every close event
\* handled while it is below 5 adds exactly 1 and schedules a reconnect, whether
\* or not the closed socket had opened; nothing else changes it.
AttemptsCountScheduledReconnects ==
    [][/\ (\E s \in DOMAIN sockets : OpenEvent(s)) => reconnectAttempts' = 0
       /\ (\E s \in DOMAIN sockets : CloseEvent(s)) =>
             IF reconnectAttempts < maxReconnectAttempts
             THEN /\ reconnectAttempts' = reconnectAttempts + 1
                  /\ Cardinality(timers') = Cardinality(timers) + 1
             ELSE reconnectAttempts' = reconnectAttempts /\ timers' = timers
       /\ (~ \E s \in DOMAIN sockets : OpenEvent(s) \/ CloseEvent(s))
             => reconnectAttempts' = reconnectAttempts]_vars

\* the first channel opened, then closed: the counter is 1 with no attempt failed
AttemptCountedForOpenedChannel ==
    /\ socketCount = 1
    /\ wsRef # 0
    /\ sockets[wsRef].readyState = "CLOSED"
    /\ sockets[wsRef].sent # <<>>
    /\ reconnectAttempts = 1

\* C9: between two successful opens at most 5 reconnects are scheduled; once the
\* counter is 5 the next close schedules none and sets connectionError to the
\* max-retries message; the reconnection logic (the handlers of the sockets the
\* reconnect timer opens) does not clear or overwrite that message before a
\* later successful open.
TerminalErrorPersists ==
    /\ [](scheduledSinceOpen <= maxReconnectAttempts)
    /\ [][/\ (reconnectAttempts = maxReconnectAttempts /\ \E s \in DOMAIN sockets : CloseEvent(s))
             => /\ timers' = timers
                /\ simulationStore'.connectionError = ErrMaxRetries
          /\ (/\ simulationStore.connectionError = ErrMaxRetries
              /\ simulationStore'.connectionError # ErrMaxRetries)
             => \E s \in DOMAIN sockets :
                   OpenEvent(s) \/ (ErrorEvent(s) /\ sockets[s].by = "connect")]_vars

(***************************************************************************)
(* C10  (SpecWorld)                                                        *)
(***************************************************************************)
\* C10: a frame whose text is not the JSON of an envelope (not JSON at all, or the
\* JSON text null) is dropped by the message handler of either dashboard: the
\* handler returns, and no field of either store and nothing of the connection
\* has changed; a well-formed metrics.update frame handled afterwards (or at any
\* time) is still processed.
MalformedFrameIsDropped ==
    [][/\ (frameCount' = frameCount + 1 /\ lastFrame'.frame.text \in {"not json", "null"})
          => /\ simulationStore' = simulationStore
             /\ dashboardStore' = dashboardStore
             /\ UNCHANGED hookVars
       /\ (frameCount' = frameCount + 1 /\ IsEnvelope(lastFrame'.frame, "metrics.update"))
          => IF lastFrame'.by = "world-viewer"
             THEN simulationStore'.metrics = lastFrame'.frame.value.data
             ELSE dashboardStore'.currentMetrics = lastFrame'.frame.value.data]_vars

\* a frame that is not JSON has just been handled, with data in both stores
MalformedFrameHandled ==
    /\ lastFrame # NoFrame
    /\ lastFrame.frame.text = "not json"
    /\ simulationStore.agents # <<>>
    /\ dashboardStore.currentMetrics # Null

(***************************************************************************)
(* C11  (SpecWorld)                                                        *)
(***************************************************************************)
\* the topics the world-viewer router has a case for
SimTopics == {"metrics.update", "world.delta", "events.stream", "policy.vote"}

\* the topics the control-tower router has a case for
DashTopics == {"metrics.update", "events.stream", "policy.vote"}

\* a well-formed frame was handled in this step by the dashboard named, its topic
\* not among topics
UnroutedFrameHandled(by, topics) ==
    /\ frameCount' = frameCount + 1
    /\ lastFrame'.by = by
    /\ lastFrame'.frame.text = "envelope"
    /\ lastFrame'.frame.value.topic \notin topics

\* C11: a well-formed frame whose topic is none of metrics.update, world.delta,
\* events.stream, policy.vote changes no field of either store and the router
\* raises nothing, whatever its data; the control-tower router ignores
\* world.delta in the same way.
UnknownTopicIsIgnored ==
    [][/\ UnroutedFrameHandled("world-viewer", SimTopics)
            => /\ Sim_handleMessage(simulationStore, lastFrame'.frame.value) # Throw
               /\ simulationStore' = simulationStore
               /\ dashboardStore' = dashboardStore
       /\ UnroutedFrameHandled("control-tower", DashTopics)
            => /\ Dash_handleWebSocketMessage(dashboardStore, lastFrame'.frame.value) # Throw
               /\ simulationStore' = simulationStore
               /\ dashboardStore' = dashboardStore]_vars

\* a frame of an unknown topic has just been handled by the world-viewer, with
\* agents, metrics and events in its store
UnknownTopicHandled ==
    /\ lastFrame.by = "world-viewer"
    /\ lastFrame.frame.text = "envelope"
    /\ lastFrame.frame.value.topic = "agent.spawn"
    /\ simulationStore.agents # <<>>
    /\ simulationStore.metrics # Null

(***************************************************************************)
(* C12  (SpecWorld)                                                        *)
(***************************************************************************)
\* C12: when the id of the selected agent is in the actors_delta of a world.delta
\* frame handled, selectedAgent afterwards is the record agents then holds for
\* that id, the one the delta carried, not the copy held before.
SelectionFollowsDelta ==
    [][(/\ DeltaHandled
        /\ simulationStore.selectedAgent # Null
        /\ simulationStore.selectedAgent.agent_id
              \in AgentIdsOf(lastFrame'.frame.value.data.actors_delta))
         => LET id == simulationStore.selectedAgent.agent_id
            IN  /\ simulationStore'.selectedAgent = FindAgent(simulationStore'.agents, id)
                /\ simulationStore'.selectedAgent
                      = FindAgent(lastFrame'.frame.value.data.actors_delta, id)]_vars

\* the selected agent is the bankrupt record of agent 5 that the delta handled
\* last carried, with another delta handled before it
SelectionRefreshed ==
    /\ frameCount >= 2
    /\ lastFrame.by = "world-viewer"
    /\ IsEnvelope(lastFrame.frame, "world.delta")
    /\ lastFrame.frame.value.data = [actors_delta |-> <<AgentRecord(5, "absent", "bankrupt")>>]
    /\ simulationStore.selectedAgent = AgentRecord(5, "absent", "bankrupt")
    /\ simulationStore.agents = <<simulationStore.selectedAgent>>

(***************************************************************************)
(* C13  (SpecEvents)                                                       *)
(***************************************************************************)
\* capacities of the two event logs
DashEventsCapacity == 200
SimEventsCapacity == 1000

\* log with one more entry pushed at the back and, beyond capacity, the oldest
\* entries dropped from the front
RingPush(log, entry, capacity) ==
    LET all == Append(log, entry)
    IN  IF Len(all) <= capacity THEN all
        ELSE [i \in 1..capacity |-> all[Len(all) - capacity + i]]

\* the entries of log are the latest ones, in arrival order: timestamps
\* consecutive up to the one that arrived last
LatestInOrder(log) ==
    \A i \in DOMAIN log : log[i].timestamp = LastStamp(log) - Len(log) + i

\* C13: the control-tower events list never holds more than 200 entries and the
\* world-viewer list never more than 1000; every event frame handled appends its
\* event at the back and evicts from the front, so each list is the most recent
\* entries in arrival order.
EventLogsKeepLatest ==
    /\ [](/\ Len(dashboardStore.events) <= DashEventsCapacity
          /\ Len(simulationStore.events) <= SimEventsCapacity
          /\ LatestInOrder(dashboardStore.events)
          /\ LatestInOrder(simulationStore.events))
    /\ [][/\ (frameCount' = frameCount + 1 /\ lastFrame'.by = "world-viewer")
             => /\ simulationStore'.events # <<>>
                /\ simulationStore'.events
                     = RingPush(simulationStore.events,
                                simulationStore'.events[Len(simulationStore'.events)],
                                SimEventsCapacity)
                /\ LastStamp(simulationStore'.events) = lastFrame'.frame.value.data.timestamp
          /\ (frameCount' = frameCount + 1 /\ lastFrame'.by = "control-tower")
             => /\ dashboardStore'.events # <<>>
                /\ dashboardStore'.events
                     = RingPush(dashboardStore.events,
                                dashboardStore'.events[Len(dashboardStore'.events)],
                                DashEventsCapacity)
                /\ LastStamp(dashboardStore'.events) = lastFrame'.frame.value.data.timestamp]_vars

\* the world-viewer has handled 1001 events and holds 2..1001
SimEventLogEvicted ==
    /\ Len(simulationStore.events) = 1000
    /\ simulationStore.events[1].timestamp = 2
    /\ simulationStore.events[1000].timestamp = 1001

(***************************************************************************)
(* C14                                                                     *)
(***************************************************************************)
\* the step settles a command of kind as failed
CommandFails(kind) ==
    /\ control.mounted
    /\ control'.lastSettled.kind = kind
    /\ control'.lastSettled.outcome = "error"
    /\ \/ control.mutation[kind] = "running" /\ control'.mutation[kind] = "error"
       \/ control'.detached[kind] = control.detached[kind] - 1

FailedCommandIsReported ==
    \A kind \in Kinds :
        CommandFails(kind) =>
            LET error == control'.lastSettled.error
                hasMessage == "message" \in DOMAIN error /\ error.message # ""
            IN  /\ simulationStore'.connectionError =
                      IF hasMessage THEN error.message ELSE Fallback(kind)
                /\ simulationStore'.connectionError # ""
                /\ simulationStore'.connectionError # NullStr
                /\ [simulationStore' EXCEPT !.connectionError = simulationStore.connectionError]
                      = simulationStore
                /\ simulationStore'.isConnected = simulationStore.isConnected

\* C14: when any of the seven commands fails, connectionError of the store
\* becomes the message of the failure if it has one and the fallback message of
\* that command otherwise, never an empty one, and every other field of the
\* store, isConnected included, keeps its value.
CommandFailureSetsConnectionError == [][FailedCommandIsReported]_vars

\* a command failed with an empty message while the store held agents, and the
\* store shows the fallback of that command
CommandFailedWithoutMessage ==
    /\ control.mounted
    /\ control.lastSettled # NoCommand
    /\ control.lastSettled.outcome = "error"
    /\ control.lastSettled.error = [message |-> ""]
    /\ simulationStore.connectionError = Fallback(control.lastSettled.kind)
    /\ simulationStore.agents # SimInitialState.agents

(***************************************************************************)
(* C15                                                                     *)
(***************************************************************************)
\* C15: isLoading is true exactly when at least one command that was issued
\* has not resolved yet; here for the library version that has isPending.
LoadingWhileCommandInFlight ==
    (control.mounted /\ control.reactQuery = 5) => (isLoading <=> InFlight # {})

\* the same for whichever version of the library is installed
LoadingWhileCommandInFlightAnyBuild ==
    control.mounted => (isLoading <=> InFlight # {})

(***************************************************************************)
(* C16                                                                     *)
(***************************************************************************)
\* the number a text of a number input denotes: [-]digits[.digits][e digits],
\* as the fraction num / den with its sign apart; the empty text denotes none
FirstIndexOf(text, c) ==
    IF \E i \in DOMAIN text : text[i] = c
    THEN CHOOSE i \in DOMAIN text : text[i] = c /\ \A j \in 1..(i - 1) : text[j] # c
    ELSE 0

RECURSIVE PowerOfTen(_)
PowerOfTen(n) == IF n = 0 THEN 1 ELSE 10 * PowerOfTen(n - 1)

NumberOf(text) ==
    LET minus    == text # <<>> /\ text[1] = "-"
        body     == IF minus THEN Tail(text) ELSE text
        ePos     == FirstIndexOf(body, "e")
        mantissa == IF ePos = 0 THEN body ELSE SubSeq(body, 1, ePos - 1)
        exponent == IF ePos = 0 THEN 0 ELSE DecimalValue(SubSeq(body, ePos + 1, Len(body)))
        dotPos   == FirstIndexOf(mantissa, ".")
        whole    == IF dotPos = 0 THEN mantissa ELSE SubSeq(mantissa, 1, dotPos - 1)
        fraction == IF dotPos = 0 THEN <<>> ELSE SubSeq(mantissa, dotPos + 1, Len(mantissa))
        num      == DecimalValue(whole \o fraction) * PowerOfTen(exponent)
        den      == PowerOfTen(Len(fraction))
    IN  [ numeric  |-> text # <<>>,
          negative |-> minus /\ num # 0,
          whole    |-> num % den = 0,
          value    |-> num \div den ]

\* a step of the jump input that issues a command
JumpIssuesCommand == control.mounted /\ control'.issued = control.issued + 1

JumpCommandMatchesTarget ==
    JumpIssuesCommand =>
        LET target == NumberOf(control.jumpTarget)
            now    == CurrentTime(simulationStore)
        IN  /\ target.numeric
            /\ ~ target.negative
            /\ target.whole =>
                  control'.lastIssued =
                      [kind |-> IF target.value < now THEN "rewind" ELSE "jump",
                       args |-> <<target.value>>]

\* C16: a jump request issues a command only for a numeric target that is not
\* negative, and then it is rewind(target) when the target is before the
\* current time of the store and jump(target) otherwise.
JumpRequestIssuesTheCommand == [][JumpCommandMatchesTarget]_vars

\* C16, on the states: what handleJump would issue for the text typed is what
\* the target demands, for a valid target exactly one command
JumpRequestIsRight ==
    control.mounted =>
        LET target == NumberOf(control.jumpTarget)
            now    == CurrentTime(simulationStore)
            cmd    == HandleJump(control.jumpTarget, now)
        IN  IF ~ target.numeric \/ target.negative
            THEN cmd = NoCommand
            ELSE target.whole =>
                   cmd = [kind |-> IF target.value < now THEN "rewind" ELSE "jump",
                          args |-> <<target.value>>]

\* the examples of the claim: 50 at time 120 rewinds, 200 at time 120 jumps
JumpExamplesHold ==
    /\ HandleJump(<<"5", "0">>, 120) = [kind |-> "rewind", args |-> <<50>>]
    /\ HandleJump(<<"2", "0", "0">>, 120) = [kind |-> "jump", args |-> <<200>>]
    /\ HandleJump(<<"1", "2", "0">>, 120) = [kind |-> "jump", args |-> <<120>>]
    /\ HandleJump(<<>>, 120) = NoCommand
    /\ HandleJump(<<"-", "5">>, 120) = NoCommand

(***************************************************************************)
(* C17                                                                     *)
(***************************************************************************)
\* a command has succeeded and the status fetch it started has succeeded since
StatusRefetchedAfterCommand ==
    /\ control.mounted
    /\ control.lastSettled # NoCommand
    /\ control.lastSettled.outcome = "success"
    /\ control.refetched

\* C17: once a command has succeeded and the status fetch that follows it has
\* returned, simulationStatus of the store is the status fetched, whether the
\* push channel is connected or not.
RefetchedStatusIsStored ==
    StatusRefetchedAfterCommand =>
        simulationStore.simulationStatus = control.statusQuery.data

\* C17, first half: the step in which a command succeeds starts a status fetch
CommandSuccessStartsFetch ==
    [][\A kind \in Kinds :
          ( /\ control.mounted
            /\ control'.lastSettled.kind = kind
            /\ control'.lastSettled.outcome = "success"
            /\ \/ control.mutation[kind] = "running" /\ control'.mutation[kind] = "success"
               \/ control'.detached[kind] = control.detached[kind] - 1 )
          => control'.statusQuery.fetching]_vars

(***************************************************************************)
(* C19                                                                     *)
(***************************************************************************)
\* the step in which a reset command succeeds
ResetSucceeds ==
    /\ control.mounted
    /\ control'.lastSettled.kind = "reset"
    /\ control'.lastSettled.outcome = "success"
    /\ \/ control.mutation["reset"] = "running" /\ control'.mutation["reset"] = "success"
       \/ control'.detached["reset"] = control.detached["reset"] - 1

\* the fields of the store of the world-viewer the reset is to empty (the
\* metrics history is a field of the store of the control-tower, whose reset
\* button calls simulationApi.reset() and does nothing on its success)
ResetFields == {"metrics", "events", "agents", "selectedAgent"}

\* C19: when the reset command succeeds, the metrics, the event log, the
\* registry of agents and the selection of the store of the world-viewer are
\* back at their initial values.
ResetRestoresInitialStore ==
    [][ResetSucceeds =>
          \A f \in ResetFields : simulationStore'[f] = Sim_reset(simulationStore)[f]]_vars

(***************************************************************************)
(* C18                                                                     *)
(***************************************************************************)
ZoomInRange ==
    /\ simulationStore.camera.zoom >= ZoomMin
    /\ simulationStore.camera.zoom <= ZoomMax

\* a wheel step takes the zoom to 1.1 or 0.9 times what it was, or to the bound
\* that product passes
WheelScalesAndClamps ==
    wheelCount' = wheelCount + 1 =>
        \E tenths \in {9, 11} :
            LET product == (simulationStore.camera.zoom * tenths) \div 10
            IN  simulationStore'.camera.zoom =
                    IF product < ZoomMin THEN ZoomMin
                    ELSE IF product > ZoomMax THEN ZoomMax ELSE product

\* C18: the zoom of the camera starts at 1 and stays within [0.1, 5]; every
\* wheel event multiplies it by 1.1 or by 0.9 and clamps the product to that
\* interval.
CameraZoomStaysClamped ==
    /\ simulationStore.camera.zoom = ZoomUnit
    /\ [](ZoomInRange)
    /\ [][WheelScalesAndClamps]_vars

\* wheel events took the zoom up to 5, where the clamp holds it
ZoomClampedAtMax ==
    /\ wheelCount > 0
    /\ simulationStore.camera.zoom = ZoomMax
    /\ worldContainer.scale = ZoomMax

(***************************************************************************)
(* C20                                                                     *)
(***************************************************************************)
\* C20: the timestamps of consecutive samples of the metric history of the
\* control-tower never decrease, however pushed metrics.update frames, pulled
\* getCurrentMetrics results and manual refreshes interleave.
MetricHistoryInTemporalOrder ==
    \A i \in 1..(Len(dashboardStore.metricsHistory) - 1) :
        dashboardStore.metricsHistory[i].timestamp
            <= dashboardStore.metricsHistory[i + 1].timestamp

(***************************************************************************)
(* C30                                                                     *)
(***************************************************************************)
\* a step of the refresh button: something is handed to updateMetrics, yet no
\* frame was handled and the query holds what it held
RefreshStep ==
    /\ pushed' # pushed
    /\ frameCount' = frameCount
    /\ dashQueries' = dashQueries

\* C30: refreshData of the control-tower leaves metricsHistory as it is: it
\* appends no sample and evicts none.
RefreshKeepsMetricHistory ==
    [][RefreshStep => dashboardStore'.metricsHistory = dashboardStore.metricsHistory]_vars

(***************************************************************************)
(* C23                                                                     *)
(***************************************************************************)
\* C23: after any sequence of updateMetrics and reset calls on the store of the
\* control-tower, currentMetrics is null exactly when metricsHistory is empty,
\* and otherwise it is the last element of metricsHistory.
CurrentMetricsIsLastOfHistory ==
    LET history == dashboardStore.metricsHistory
    IN  /\ (dashboardStore.currentMetrics = Null) <=> (history = <<>>)
        /\ history # <<>> => dashboardStore.currentMetrics = history[Len(history)]

\* samples were stored, the store was reset, and samples were stored again
MetricsStoredAfterReset ==
    /\ dashboardStore.metricsHistory # <<>>
    /\ Len(dashboardStore.metricsHistory) < Len(pushed)
    /\ Len(pushed) <= MetricsHistoryKeep
    /\ dashboardStore.currentMetrics = pushed[Len(pushed)]

(***************************************************************************)
(* C24                                                                     *)
(***************************************************************************)
\* the event log of a dashboard
EventLogOf(by, dash, sim) == IF by = "control-tower" THEN dash.events ELSE sim.events

\* the event is tagged policy_vote in its event_type field
TaggedPolicyVote(event) ==
    "event_type" \in DOMAIN event /\ event.event_type = "policy_vote"

\* the event carries the payload of the vote: as its payload field, or field by
\* field (the tag aside)
CarriesVote(event, data) ==
    \/ "payload" \in DOMAIN event /\ event.payload = data
    \/ \A f \in DOMAIN data \ {"event_type", "type"} :
          f \in DOMAIN event /\ event[f] = data[f]

\* the step in which the dashboard handles a policy.vote frame appends exactly
\* one event, tagged and carrying the vote
VoteFrameAppendsTaggedEvent(by) ==
    ( /\ frameCount' = frameCount + 1
      /\ lastFrame'.by = by
      /\ IsEnvelope(lastFrame'.frame, "policy.vote") )
    => LET before == EventLogOf(by, dashboardStore, simulationStore)
           after  == EventLogOf(by, dashboardStore', simulationStore')
       IN  /\ Len(after) = Len(before) + 1
           /\ SubSeq(after, 1, Len(before)) = before
           /\ TaggedPolicyVote(after[Len(after)])
           /\ CarriesVote(after[Len(after)], lastFrame'.frame.value.data)

\* C24: every policy.vote frame handled appends exactly one event to the event
\* log, with event_type 'policy_vote' whatever the payload contains, carrying
\* the vote, in the control-tower and in the world-viewer.
PolicyVoteAppendsTaggedEvent ==
    [][\A by \in {"control-tower", "world-viewer"} : VoteFrameAppendsTaggedEvent(by)]_vars

\* the same for the router of the control-tower alone
PolicyVoteAppendsTaggedEventInControlTower ==
    [][VoteFrameAppendsTaggedEvent("control-tower")]_vars

(***************************************************************************)
(* C25                                                                     *)
(***************************************************************************)
\* a step that is a call of disconnect()
DisconnectStep == userCalls' = userCalls + 1 /\ shutdown'

\* what the claim says disconnect() leaves
DisconnectedAndQuiet(state, connected, ref, pending) ==
    /\ state = "disconnected"
    /\ ~ connected
    /\ ref = 0
    /\ pending = {}

\* C25: disconnect() is idempotent and safe in every state: after it the
\* connection state is disconnected, isConnected is false, there is no channel
\* handle and no reconnect timer pending, and a second call right after it
\* changes nothing.
DisconnectIsIdempotent ==
    [][DisconnectStep =>
          /\ DisconnectedAndQuiet(connectionState', simulationStore'.isConnected, wsRef',
                                  timers')
          /\ (shutdown /\ wsRef = 0 /\ connectionState = "disconnected"
                  /\ ~ simulationStore.isConnected /\ reconnectTimeoutRef \notin timers)
               => UNCHANGED <<simulationStore, wsRef, connectionState, reconnectTimeoutRef,
                              reconnectAttempts, sockets, timers>>]_vars

\* C25 without the timers: a call of disconnect() leaves the connection state
\* disconnected, isConnected false and no channel handle, and a call made in
\* the state a call has left changes nothing
DisconnectTwiceIsOnce ==
    [][DisconnectStep =>
          /\ DisconnectedAndQuiet(connectionState', simulationStore'.isConnected, wsRef', {})
          /\ (shutdown /\ wsRef = 0 /\ connectionState = "disconnected"
                  /\ ~ simulationStore.isConnected /\ reconnectTimeoutRef \notin timers)
               => UNCHANGED <<simulationStore, wsRef, connectionState, reconnectTimeoutRef,
                              reconnectAttempts, sockets, timers>>]_vars

(***************************************************************************)
(* C29                                                                     *)
(***************************************************************************)
\* C29: selectedAgent of the store of the world-viewer is null or a record that
\* agents holds now.
SelectionIsInRegistry ==
    \/ simulationStore.selectedAgent = Null
    \/ \E i \in DOMAIN simulationStore.agents :
          simulationStore.agents[i] = simulationStore.selectedAgent

(***************************************************************************)
(* C27                                                                     *)
(***************************************************************************)
\* the mouse event the step handles, if it handles one
MouseStep(type) ==
    /\ cameraControls'.pointerEvents = cameraControls.pointerEvents + 1
    /\ cameraControls'.lastEvent.type = type

Offset(camera) == [x |-> camera.x, y |-> camera.y]

DragStateMachine ==
    LET e      == cameraControls'.lastEvent
        camera == simulationStore.camera
        after  == simulationStore'.camera
    IN  /\ MouseStep("mousedown") =>
              /\ cameraControls'.isDragging
              /\ cameraControls'.dragStart = [x |-> e.x, y |-> e.y]
              /\ cameraControls'.lastPosition = Offset(camera)
              /\ after = camera
        /\ (MouseStep("mousemove") /\ cameraControls.isDragging) =>
              /\ after.x = cameraControls.lastPosition.x + (e.x - cameraControls.dragStart.x)
              /\ after.y = cameraControls.lastPosition.y + (e.y - cameraControls.dragStart.y)
              /\ after.zoom = camera.zoom
              /\ cameraControls'.isDragging
              /\ cameraControls'.dragStart = cameraControls.dragStart
              /\ cameraControls'.lastPosition = cameraControls.lastPosition
        /\ (MouseStep("mousemove") /\ ~ cameraControls.isDragging) =>
              /\ simulationStore' = simulationStore
              /\ worldContainer' = worldContainer
              /\ ~ cameraControls'.isDragging
        /\ MouseStep("mouseup") =>
              /\ ~ cameraControls'.isDragging
              /\ after = camera
        /\ wheelCount' = wheelCount + 1 =>
              /\ Offset(after) = Offset(camera)
              /\ cameraControls' = cameraControls

\* C27: mousedown starts a drag and records the pointer and the offset of the
\* camera; a mousemove during a drag sets the offset to the recorded offset
\* plus the way the pointer has gone and leaves the zoom; mouseup ends the
\* drag; a mousemove outside a drag changes nothing; the wheel never changes
\* the offset.
ViewportDragFollowsPointer == [][DragStateMachine]_vars

\* a second drag has moved the camera on from where the first one left it,
\* with the zoom changed by the wheel in between
SecondDragMovedCamera ==
    /\ cameraControls.isDragging
    /\ cameraControls.lastEvent.type = "mousemove"
    /\ cameraControls.lastPosition # [x |-> 0, y |-> 0]
    /\ Offset(simulationStore.camera) # cameraControls.lastPosition
    /\ simulationStore.camera.zoom # ZoomUnit

(***************************************************************************)
(* C26                                                                     *)
(***************************************************************************)
\* the failure is a refusal at transport level: no response, connection refused
TransportRefusal(error) == error.response = Null /\ error.code = "ECONNREFUSED"

ApiErrorSurfaced(clients) ==
    (apiFailure # NoFailure /\ apiFailure.client \in clients) =>
        /\ HasDataError(apiFailure.error) =>
              apiFailure.thrown.message = apiFailure.error.response.data.error
        /\ TransportRefusal(apiFailure.error) =>
              apiFailure.thrown.message = ErrNoServer

\* C26: the error a failed API call surfaces carries the message of the server
\* when the error response has one, and the generic connectivity message when
\* the connection was refused, in the clients of both dashboards.
ApiErrorCarriesServerMessage == ApiErrorSurfaced(ApiClients)

\* the same for the client of the control-tower alone
ControlTowerApiErrorCarriesServerMessage == ApiErrorSurfaced({"control-tower"})

(***************************************************************************)
(* C28                                                                     *)
(***************************************************************************)
\* wsRef.current is a WebSocket whose readyState is OPEN
ChannelOpen == wsRef # 0 /\ wsRef \in DOMAIN sockets /\ sockets[wsRef].readyState = "OPEN"

\* C28: between the tasks of the browser, isConnected of the store is true
\* exactly when the current channel is open.
ConnectedIffChannelOpen ==
    task = 0 => (simulationStore.isConnected <=> ChannelOpen)

(***************************************************************************)
(* C21                                                                     *)
(***************************************************************************)
\* C21: while a command is pending (isLoading true) no control issues a
\* further command: every step that issues one starts where isLoading is
\* false.
NoCommandWhileLoading ==
    [][(control.mounted /\ control'.issued = control.issued + 1) => ~ isLoading]_vars

(***************************************************************************)
(* C22: a connection drop and reconnect leaves the persistent data         *)
(* untouched: a close event, a reconnect attempt and a successful re-open  *)
(* leave metricsHistory, the event logs, the entity registry and the       *)
(* selection as they are, and in a session whose channel has dropped and   *)
(* been replaced only the reset / clearEvents actions of the stores empty  *)
(* a history, a log or the registry.                                       *)
(***************************************************************************)
PersistentData ==
    <<dashboardStore.metricsHistory, dashboardStore.events, simulationStore.events,
      simulationStore.agents, simulationStore.selectedAgent>>

\* a step of the channel: an open, error or close event, a reconnect timer
ChannelStep == hookVars' # hookVars \/ dashWs' # dashWs

\* the channel of the page has dropped and a new WebSocket has replaced it
ChannelReplaced == socketCount >= 2 \/ dashWs.created >= 2

\* a history, a log or the registry that held entries holds none after the step
SomethingEmptied ==
    \/ dashboardStore.metricsHistory # <<>> /\ dashboardStore'.metricsHistory = <<>>
    \/ dashboardStore.events # <<>> /\ dashboardStore'.events = <<>>
    \/ simulationStore.events # <<>> /\ simulationStore'.events = <<>>
    \/ simulationStore.agents # <<>> /\ simulationStore'.agents = <<>>

\* the step is reset() or clearEvents() of a store
ExplicitReset ==
    \/ /\ dashboardStore' # dashboardStore
       /\ \/ dashboardStore' = Dash_reset(dashboardStore)
          \/ dashboardStore' = Dash_clearEvents(dashboardStore)
    \/ /\ simulationStore' # simulationStore
       /\ simulationStore' = Sim_reset(simulationStore)

\* the part of C22 about the channel events alone
ChannelEventsKeepPersistentData ==
    [][ChannelStep => UNCHANGED PersistentData]_vars

\* C22 as stated: channel events keep the data, and after a drop and reconnect
\* nothing but an explicit reset empties it
ReconnectKeepsPersistentData ==
    [][/\ ChannelStep => UNCHANGED PersistentData
       /\ (ChannelReplaced /\ SomethingEmptied) => ExplicitReset]_vars

\* data of every kind is held after a drop and a successful re-open
DataHeldAfterReopen ==
    /\ socketCount >= 2
    /\ wsRef # 0
    /\ sockets[wsRef].readyState = "OPEN"
    /\ simulationStore.isConnected
    /\ simulationStore.agents # <<>>
    /\ simulationStore.selectedAgent # Null
    /\ simulationStore.events # <<>>

====
